---- MODULE Spec2Model ----
(***************************************************************************)
(* A model of the capture pipeline of har-tool: the forward proxy and its  *)
(* CONNECT tunnel (apps/server/src/proxy.ts), the sanitizer                *)
(* (apps/server/src/sanitize.ts), the in-memory ring with its SSE fan-out  *)
(* (index.ts: pushLog, /events, /api/clear) and the session store          *)
(* (sessionStore.ts).                                                      *)
(*                                                                         *)
(* Strings the code inspects (header names, query keys, JSON keys, MIME    *)
(* types) are sequences of one-character strings, so that toLowerCase,     *)
(* includes and endsWith are computed.  Strings the code only carries      *)
(* (values, hosts, paths) are TLA+ strings.  An optional field is a        *)
(* sequence of length at most one: <<>> is undefined, <<v>> is v.          *)
(***************************************************************************)
EXTENDS Integers, Sequences, FiniteSets, TLC

None == <<>>
Some(v) == <<v>>
IsSome(o) == Len(o) = 1
Val(o) == o[1]

Range(s) == { s[i] : i \in 1..Len(s) }

(***************************************************************************)
(* String primitives                                                       *)
(***************************************************************************)
UPPER == <<"A","B","C","D","E","F","G","H","I","J","K","L","M","N","O","P","Q","R","S","T","U","V","W","X","Y","Z">>
LOWER == <<"a","b","c","d","e","f","g","h","i","j","k","l","m","n","o","p","q","r","s","t","u","v","w","x","y","z">>

lowerChar(c) ==
  IF \E i \in 1..Len(UPPER) : UPPER[i] = c
  THEN LOWER[CHOOSE i \in 1..Len(UPPER) : UPPER[i] = c]
  ELSE c

\* String.prototype.toLowerCase
toLowerCase(s) == [i \in 1..Len(s) |-> lowerChar(s[i])]

\* String.prototype.includes
includes(s, p) ==
  \E i \in 0..(Len(s) - Len(p)) : SubSeq(s, i + 1, i + Len(p)) = p

\* String.prototype.endsWith
endsWith(s, p) ==
  /\ Len(p) <= Len(s)
  /\ SubSeq(s, Len(s) - Len(p) + 1, Len(s)) = p

(***************************************************************************)
(* sanitize.ts                                                             *)
(***************************************************************************)
DEFAULT_MASK == "***redacted***"

SENSITIVE_HEADERS ==
  {
    <<"a","u","t","h","o","r","i","z","a","t","i","o","n">>,  \* authorization
    <<"p","r","o","x","y","-","a","u","t","h","o","r","i","z","a","t","i","o","n">>,  \* proxy-authorization
    <<"c","o","o","k","i","e">>,  \* cookie
    <<"s","e","t","-","c","o","o","k","i","e">>,  \* set-cookie
    <<"x","-","a","p","i","-","k","e","y">>,  \* x-api-key
    <<"x","-","a","u","t","h","-","t","o","k","e","n">>,  \* x-auth-token
    <<"x","-","c","s","r","f","-","t","o","k","e","n">>,  \* x-csrf-token
    <<"x","-","x","s","r","f","-","t","o","k","e","n">>,  \* x-xsrf-token
    <<"x","-","a","m","z","-","s","e","c","u","r","i","t","y","-","t","o","k","e","n">>  \* x-amz-security-token
  }

SENSITIVE_QUERY_KEYS ==
  <<
    <<"t","o","k","e","n">>,  \* token
    <<"a","c","c","e","s","s","_","t","o","k","e","n">>,  \* access_token
    <<"r","e","f","r","e","s","h","_","t","o","k","e","n">>,  \* refresh_token
    <<"i","d","_","t","o","k","e","n">>,  \* id_token
    <<"a","p","i","_","k","e","y">>,  \* api_key
    <<"a","p","i","k","e","y">>,  \* apikey
    <<"k","e","y">>,  \* key
    <<"c","o","d","e">>,  \* code
    <<"p","a","s","s","w","o","r","d">>,  \* password
    <<"p","a","s","s","w","d">>,  \* passwd
    <<"s","e","c","r","e","t">>,  \* secret
    <<"s","i","g","n","a","t","u","r","e">>,  \* signature
    <<"s","i","g">>  \* sig
  >>

SENSITIVE_JSON_KEY_PATTERNS ==
  <<
    <<"p","a","s","s","w","o","r","d">>,  \* password
    <<"p","a","s","s","w","d">>,  \* passwd
    <<"s","e","c","r","e","t">>,  \* secret
    <<"t","o","k","e","n">>,  \* token
    <<"r","e","f","r","e","s","h">>,  \* refresh
    <<"a","c","c","e","s","s">>,  \* access
    <<"a","u","t","h","o","r","i","z","a","t","i","o","n">>,  \* authorization
    <<"c","o","o","k","i","e">>,  \* cookie
    <<"a","p","i","k","e","y">>,  \* apikey
    <<"a","p","i","_","k","e","y">>,  \* api_key
    <<"s","e","s","s","i","o","n">>,  \* session
    <<"c","s","r","f">>,  \* csrf
    <<"x","s","r","f">>  \* xsrf
  >>

MIME_FORM == <<"a","p","p","l","i","c","a","t","i","o","n","/","x","-","w","w","w","-","f","o","r","m","-","u","r","l","e","n","c","o","d","e","d">>  \* application/x-www-form-urlencoded
MIME_JSON == <<"a","p","p","l","i","c","a","t","i","o","n","/","j","s","o","n">>  \* application/json

\* A JSON value is a tagged record: JStr, JNum, JNull or a container.
JStr(s) == [t |-> "str", s |-> s]
JNum(n) == [t |-> "num", n |-> n]
JNull == [t |-> "null"]
JArr(items) == [t |-> "arr", items |-> items]
\* members: a sequence of <<key, value>> with distinct keys, in insertion order
JObj(members) == [t |-> "obj", members |-> members]

\* A body text is a tagged record saying what the characters are:
\*   [k |-> "raw", s]             text that is neither JSON nor key=value pairs
\*   [k |-> "json", v, indent]    the serialisation of the JSON value v; indent
\*                                0 is compact, 2 is JSON.stringify(v, null, 2)
\*   [k |-> "badjson", s]         text that begins with "{" and does not parse
\*   [k |-> "form", pairs]        URL-encoded key=value pairs, in order
RawText(s) == [k |-> "raw", s |-> s]
BadJsonText(s) == [k |-> "badjson", s |-> s]
FormText(pairs) == [k |-> "form", pairs |-> pairs]

\* Scalars and empty containers serialise the same at every indentation.
jsonIsFlat(v) ==
  CASE v.t = "arr" -> v.items = <<>>
    [] v.t = "obj" -> v.members = <<>>
    [] OTHER -> TRUE

\* JSON.stringify(v, null, indent)
JSON_stringify(v, indent) ==
  [k |-> "json", v |-> v, indent |-> IF jsonIsFlat(v) THEN 0 ELSE indent]

\* JSON.parse: <<>> when it throws
JSON_parse(text) == IF text.k = "json" THEN Some(text.v) ELSE None

\* text.trim().startsWith("{") || text.trim().startsWith("[")
startsWithBracket(text) ==
  CASE text.k = "json" -> text.v.t \in {"obj", "arr"}
    [] text.k = "badjson" -> TRUE
    [] OTHER -> FALSE

\* a faulty redactValue: it puts a mark in front of a string instead of
\* replacing it
redactValue_marks(v) == IF v.t = "str" THEN "***" \o v.s ELSE DEFAULT_MASK

redactValue(v) == DEFAULT_MASK

\* const out = {}; out[k] = v: the names that become own properties of out.
\* "__proto__" names the prototype accessor of a plain object, so assigning
\* to it creates no property.
k___proto__ == <<"_","_","p","r","o","t","o","_","_">>  \* __proto__
assignable(names) == names \ {k___proto__}

\* a faulty maskHeaders: it looks the name up as it is spelled
maskHeaders_asSpelled(headers) ==
  IF ~IsSome(headers) THEN headers
  ELSE LET h == Val(headers)
       IN Some([name \in assignable(DOMAIN h) |->
                  IF name \in SENSITIVE_HEADERS
                  THEN DEFAULT_MASK ELSE h[name]])

maskHeaders(headers) ==
  IF ~IsSome(headers) THEN headers
  ELSE LET h == Val(headers)
       IN Some([name \in assignable(DOMAIN h) |->
                  IF toLowerCase(name) \in SENSITIVE_HEADERS
                  THEN DEFAULT_MASK ELSE h[name]])

\* the hit test of maskQuery
queryKeyHit(k) ==
  LET key == toLowerCase(k)
  IN \E i \in 1..Len(SENSITIVE_QUERY_KEYS) :
       LET s == SENSITIVE_QUERY_KEYS[i]
       IN \/ key = s
          \/ endsWith(key, <<"_">> \o s)
          \/ includes(key, s)

\* out[k] = ... on a {}: no property is created for "__proto__"
maskQuery(query) ==
  IF ~IsSome(query) THEN query
  ELSE LET q == Val(query)
       IN Some([key \in assignable(DOMAIN q) |->
                  IF queryKeyHit(key) THEN DEFAULT_MASK ELSE q[key]])

shouldMaskJsonKey(key) ==
  LET k == toLowerCase(key)
  IN \E i \in 1..Len(SENSITIVE_JSON_KEY_PATTERNS) :
       LET p == SENSITIVE_JSON_KEY_PATTERNS[i]
       IN k = p \/ includes(k, p)

\* out[k] = ... in the object branch creates no property for "__proto__"
RECURSIVE deepMaskJson(_)
deepMaskJson(value) ==
  CASE value.t = "arr" ->
         JArr([i \in 1..Len(value.items) |-> deepMaskJson(value.items[i])])
    [] value.t = "obj" ->
         LET own == SelectSeq(value.members,
                              LAMBDA m : m[1] \in assignable({m[1]}))
         IN JObj([i \in 1..Len(own) |->
                    LET key == own[i][1]
                        v == own[i][2]
                    IN <<key, IF shouldMaskJsonKey(key)
                              THEN JStr(redactValue(v))
                              ELSE deepMaskJson(v)>>])
    [] OTHER -> value

\* a faulty maskJsonText: text that does not parse is dropped
maskJsonText_dropUnparsed(text) ==
  LET data == JSON_parse(text)
  IN IF IsSome(data)
     THEN JSON_stringify(deepMaskJson(Val(data)), 2)
     ELSE RawText("")

maskJsonText(text) ==
  LET data == JSON_parse(text)
  IN IF IsSome(data)
     THEN JSON_stringify(deepMaskJson(Val(data)), 2)
     ELSE text

\* the hit test of the form branch of maskBody
formKeyHit(key) ==
  LET k == toLowerCase(key)
  IN \E i \in 1..Len(SENSITIVE_QUERY_KEYS) :
       LET s == SENSITIVE_QUERY_KEYS[i]
       IN k = s \/ includes(k, s)

\* the characters of a sequence of character sequences, joined by sep
RECURSIVE joinChars(_, _)
joinChars(parts, sep) ==
  IF parts = <<>> THEN <<>>
  ELSE IF Len(parts) = 1 THEN parts[1]
  ELSE parts[1] \o sep \o joinChars(Tail(parts), sep)

\* the characters of the compact serialisation of a JSON value.  A string
\* value or a number is one element, written as it is carried: it is text in
\* which no key pattern occurs.
RECURSIVE jsonChars(_)
jsonChars(v) ==
  CASE v.t = "str" -> <<"\"", v.s, "\"">>
    [] v.t = "num" -> <<ToString(v.n)>>
    [] v.t = "null" -> <<"n","u","l","l">>
    [] v.t = "arr" ->
         <<"[">> \o joinChars([i \in 1..Len(v.items) |-> jsonChars(v.items[i])],
                               <<",">>) \o <<"]">>
    [] v.t = "obj" ->
         <<"{">> \o joinChars([i \in 1..Len(v.members) |->
                                  <<"\"">> \o v.members[i][1] \o <<"\"", ":">>
                                    \o jsonChars(v.members[i][2])],
                               <<",">>) \o <<"}">>

\* new URLSearchParams(text): the pairs of the text, in order.  JSON text has
\* no "=" and no "&" outside its values: it is one key with an empty value.
URLSearchParams(text) ==
  CASE text.k = "form" -> text.pairs
    [] text.k = "raw" /\ text.s = "" -> <<>>
    [] text.k = "json" -> << <<jsonChars(text.v), "">> >>

\* for (const key of params.keys()) if (hit) params.set(key, DEFAULT_MASK):
\* set() writes the first pair of that name and deletes the later ones.
RECURSIVE formMask(_, _)
formMask(pairs, i) ==
  IF i > Len(pairs) THEN pairs
  ELSE LET key == pairs[i][1]
       IN IF formKeyHit(key)
          THEN LET first == CHOOSE j \in 1..Len(pairs) :
                              /\ pairs[j][1] = key
                              /\ \A m \in 1..(j - 1) : pairs[m][1] # key
                   set == [j \in 1..Len(pairs) |->
                             IF j = first THEN <<key, DEFAULT_MASK>> ELSE pairs[j]]
                   kept == SelectSeq([j \in 1..Len(pairs) |-> <<j, set[j]>>],
                                     LAMBDA jp : jp[1] = first \/ jp[2][1] # key)
                   next == [j \in 1..Len(kept) |-> kept[j][2]]
               IN formMask(next, i + 1)
          ELSE formMask(pairs, i + 1)

maskBody(body) ==
  IF ~IsSome(body) THEN body
  ELSE LET b == Val(body)
           mime == toLowerCase(b.mime)
           text == b.text
       IN IF includes(mime, MIME_FORM)
          THEN Some([b EXCEPT !.text = FormText(formMask(URLSearchParams(text), 1))])
          ELSE IF includes(mime, MIME_JSON) \/ startsWithBracket(text)
               THEN Some([b EXCEPT !.text = maskJsonText(text)])
               ELSE body

sanitizeLog(log) ==
  [log EXCEPT
     !.request = [log.request EXCEPT
                    !.headers = Val(maskHeaders(Some(log.request.headers))),
                    !.query = maskQuery(log.request.query),
                    !.body = maskBody(log.request.body)],
     !.response = IF IsSome(log.response)
                  THEN Some([Val(log.response) EXCEPT
                               !.headers = maskHeaders(Val(log.response).headers),
                               !.body = maskBody(Val(log.response).body)])
                  ELSE log.response]

(***************************************************************************)
(* LogRecord assembly (proxy.ts)                                           *)
(*                                                                         *)
(* A RequestLog is                                                         *)
(*   [id, method, url, host, path, status,                                 *)
(*    request  |-> [headers, query, body],                                 *)
(*    response |-> optional [headers, body]]                               *)
(* with status, query, the bodies and the response headers optional.  ts   *)
(* and durationMs are wall-clock readings and are left out.                *)
(*                                                                         *)
(* A URL object is [protocol, host, pathname, search], search being the    *)
(* sequence of <<key, value>> pairs of the query string.                   *)
(***************************************************************************)
k_Authorization == <<"A","u","t","h","o","r","i","z","a","t","i","o","n">>  \* Authorization
k_authorization == <<"a","u","t","h","o","r","i","z","a","t","i","o","n">>  \* authorization
k_XTrace == <<"X","-","T","r","a","c","e">>  \* X-Trace
k_SetCookie == <<"S","e","t","-","C","o","o","k","i","e">>  \* Set-Cookie
k_host == <<"h","o","s","t">>  \* host
k_token == <<"t","o","k","e","n">>  \* token
k_page == <<"p","a","g","e">>  \* page
k_password == <<"p","a","s","s","w","o","r","d">>  \* password
k_name == <<"n","a","m","e">>  \* name
k_user == <<"u","s","e","r">>  \* user
k_session == <<"s","e","s","s","i","o","n">>  \* session
k_api_key == <<"a","p","i","_","k","e","y">>  \* api_key
k_q == <<"q">>  \* q
k_XCookieNote == <<"X","-","C","o","o","k","i","e","-","N","o","t","e">>  \* X-Cookie-Note
m_none == <<>>  \* the empty string
m_JsonUtf8 == <<"A","p","p","l","i","c","a","t","i","o","n","/","J","S","O","N",";"," ","c","h","a","r","s","e","t","=","u","t","f","-","8">>  \* Application/JSON; charset=utf-8
m_textPlain == <<"t","e","x","t","/","p","l","a","i","n">>  \* text/plain

\* Array.prototype.join(", ")
RECURSIVE join(_)
join(v) ==
  IF Len(v) = 1 THEN v[1] ELSE v[1] \o ", " \o join(Tail(v))

\* headersToRecord: a header value is the non-empty sequence of its values
headersToRecord(h) == [name \in assignable(DOMAIN h) |-> join(h[name])]

\* Object.fromEntries(url.searchParams.entries()): the last pair of a key wins
fromEntries(pairs) ==
  [key \in { pairs[i][1] : i \in 1..Len(pairs) } |->
     pairs[CHOOSE i \in 1..Len(pairs) :
             /\ pairs[i][1] = key
             /\ \A j \in (i + 1)..Len(pairs) : pairs[j][1] # key][2]]

\* URL.prototype.toString(): the characters of the URL, by part
URL_toString(u) ==
  [origin |-> u.protocol \o "//" \o u.host, pathname |-> u.pathname,
   search |-> u.search]

\* the record pushed by the upstream response's "end" handler
successLog(id, clientReq, targetUrl, upstreamRes) ==
  [id |-> id,
   method |-> IF clientReq.method = "" THEN "GET" ELSE clientReq.method,
   url |-> URL_toString(targetUrl),
   host |-> targetUrl.host,
   path |-> targetUrl.pathname,
   status |-> Some(upstreamRes.statusCode),
   request |-> [headers |-> headersToRecord(clientReq.headers),
                query |-> Some(fromEntries(targetUrl.search)),
                body |-> Some([mime |-> clientReq.contentType,
                               text |-> clientReq.body])],
   response |-> Some([headers |-> Some(headersToRecord(upstreamRes.headers)),
                      body |-> Some([mime |-> upstreamRes.contentType,
                                     text |-> upstreamRes.body])])]

\* the minimal record pushed by the upstream request's "error" handler
failureLog(id, clientReq, targetUrl, err) ==
  [id |-> id,
   method |-> IF clientReq.method = "" THEN "GET" ELSE clientReq.method,
   url |-> URL_toString(targetUrl),
   host |-> targetUrl.host,
   path |-> targetUrl.pathname,
   status |-> Some(502),
   request |-> [headers |-> headersToRecord(clientReq.headers),
                query |-> Some(fromEntries(targetUrl.search)),
                body |-> None],
   response |-> Some([headers |-> Some(<<>>),
                      body |-> Some([mime |-> m_textPlain,
                                     text |-> RawText("Bad Gateway: " \o err.code
                                                      \o " " \o err.message)])])]

(***************************************************************************)
(* State                                                                   *)
(***************************************************************************)
VARIABLES
  sanA, sanB,   \* two captured records handed to sanitizeLog
  outA, outB,   \* what sanitizeLog returned for each (optional)
  logs,         \* index.ts `logs`: the ring, newest first
  clients,      \* index.ts `clients`: the ids in the subscriber Map
  sse,          \* per subscriber ever registered, its response stream
  current,      \* SessionStore.current (optional meta)
  writeStream,  \* SessionStore.writeStream (optional: the session it appends to)
  sessions,     \* per session directory: meta.json, logs.ndjson, the stream
  metaWrites,   \* the meta.json writes that append() started and awaits
  tasks,        \* the start()/stop() calls, each at its await
  crashed,      \* the process ended on an uncaught exception
  emitted,      \* history: the records handed to pushLog, in order
  clearedAt,    \* history: Len(emitted) at the last /api/clear
  ex,           \* per plain-HTTP exchange of the forward proxy, its closure
  tun,          \* per CONNECT request of the forward proxy, its closure
  cap,          \* one request body on its way through a proxy's bounded capture
  hdrIn,        \* a header map handed to stripHopByHop
  hdrOut,       \* what stripHopByHop left of it (optional)
  call,         \* a call of a function of the store or the catalog: its arguments
  ret           \* what the call returned (optional)

sanVars == <<sanA, sanB, outA, outB>>
hubVars == <<logs, clients, sse, current, writeStream, sessions, metaWrites,
             tasks, crashed, emitted, clearedAt>>
proxyVars == <<ex, tun>>
capVars == <<cap>>
stripVars == <<hdrIn, hdrOut>>
pureVars == <<call, ret>>
sideVars == <<capVars, stripVars, pureVars>>
notHubVars == <<sanVars, proxyVars, sideVars>>

(***************************************************************************)
(* Captured exchanges for the sanitizer: a shape says which headers, query *)
(* keys and bodies the exchange has; the secret is the value carried under *)
(* every sensitive key of that shape.                                      *)
(***************************************************************************)
Secrets == {"s3cr3t-A", "s3cr3t-B"}

ShapeReqHeaders ==
  {{}, {k_XTrace}, {k_Authorization}, {k_Authorization, k_XTrace},
   {k_authorization, k_XCookieNote}}
ShapeSearch ==
  {<<>>, <<k_page>>, <<k_token>>, <<k_token, k_page>>, <<k___proto__, k_page>>}
ShapeReqBody ==
  {"none", "json", "form", "raw", "formjson", "jsonproto", "badjson", "bracket",
   "formdup"}
ShapeRes == {"plain", "cookie"}

Shapes ==
  [reqHeaders : ShapeReqHeaders, search : ShapeSearch,
   reqBody : ShapeReqBody, res : ShapeRes]

shapeRequest(shape, secret) ==
  [method |-> "POST",
   headers |-> [name \in shape.reqHeaders |->
                  IF name \in {k_Authorization, k_authorization}
                  THEN <<secret>> ELSE <<"t1">>],
   contentType |->
     CASE shape.reqBody \in {"json", "jsonproto", "badjson"} -> m_JsonUtf8
       [] shape.reqBody \in {"form", "formjson", "formdup"} -> MIME_FORM
       [] shape.reqBody \in {"raw", "bracket"} -> m_textPlain
       [] OTHER -> m_none,
   body |->
     CASE shape.reqBody \in {"json", "formjson"} ->
            JSON_stringify(JObj(<< <<k_password, JStr(secret)>>,
                                   <<k_user, JObj(<< <<k_token, JStr(secret)>>,
                                                     <<k_name, JStr("y")>> >>)>> >>), 0)
       [] shape.reqBody = "jsonproto" ->
            JSON_stringify(JObj(<< <<k___proto__, JObj(<< <<k_name, JStr("y")>> >>)>>,
                                   <<k_user, JArr(<< JObj(<< <<k_session, JStr(secret)>>,
                                                           <<k_name, JNum(7)>> >>),
                                                      JNull >>)>> >>), 0)
       [] shape.reqBody = "form" ->
            FormText(<< <<k_api_key, secret>>, <<k_q, "v">> >>)
       [] shape.reqBody = "formdup" ->
            FormText(<< <<k_token, secret>>, <<k_q, "v">>, <<k_token, "t2">> >>)
       [] shape.reqBody = "raw" -> RawText("hello")
       [] shape.reqBody \in {"badjson", "bracket"} -> BadJsonText("{\"name\":\"y")
       [] OTHER -> RawText("")]

shapeTarget(shape, secret) ==
  [protocol |-> "http:", host |-> "example.com", pathname |-> "/v1/users",
   search |-> [i \in 1..Len(shape.search) |->
                 <<shape.search[i],
                   IF shape.search[i] = k_token THEN secret ELSE "1">>]]

shapeResponse(shape, secret) ==
  [statusCode |-> 200,
   headers |-> IF shape.res = "cookie"
               THEN [name \in {k_SetCookie} |-> <<secret, "theme=dark">>]
               ELSE <<>>,
   contentType |-> MIME_JSON,
   body |-> IF shape.res = "cookie"
            THEN JSON_stringify(JObj(<< <<k_session, JStr(secret)>> >>), 0)
            ELSE JSON_stringify(JObj(<< <<k_name, JStr("y")>> >>), 0)]

\* the record the forward proxy assembles for an exchange of this shape
captured(shape, secret) ==
  successLog(<<"capture", 0>>, shapeRequest(shape, secret), shapeTarget(shape, secret),
             shapeResponse(shape, secret))

SanInit ==
  /\ \E shape \in Shapes : \E a \in Secrets : \E b \in Secrets :
       /\ sanA = captured(shape, a)
       /\ sanB = captured(shape, b)
  /\ outA = None
  /\ outB = None

\* pushLog's first statement, on each record of the pair
Sanitize ==
  /\ outA = None
  /\ outA' = Some(sanitizeLog(sanA))
  /\ outB' = Some(sanitizeLog(sanB))
  /\ UNCHANGED <<sanA, sanB, hubVars, proxyVars, sideVars>>

SanNext == Sanitize

(***************************************************************************)
(* index.ts: the ring, the SSE subscribers, pushLog                        *)
(***************************************************************************)
\* MAX_LOGS is 2000 in index.ts; the model runs the same code with a
\* capacity small enough for the ring to overflow.
MAX_LOGS == 2

MaxEmits == 3          \* pushLog calls in a run
MaxSubscribers == 2    \* /events connections in a run
MaxCalls == 2          \* start()/stop() calls in a run

helloEvent(id) == [event |-> "hello", data |-> [clientId |-> id]]
logEvent(safe) == [event |-> "log", data |-> safe]

\* a faulty ring: once full it keeps what it has and drops the newcomer
ringInsert_keepOldest(ring, safe) ==
  IF Len(ring) >= MAX_LOGS THEN ring ELSE <<safe>> \o ring

\* logs.unshift(safe); if (logs.length > MAX_LOGS) logs.length = MAX_LOGS
ringInsert(ring, safe) ==
  LET grown == <<safe>> \o ring
  IN IF Len(grown) > MAX_LOGS THEN SubSeq(grown, 1, MAX_LOGS) ELSE grown

\* a faulty fan-out: it writes to every stream ever registered
broadcast_everyStream(streams, ids, safe) ==
  [c \in DOMAIN streams |->
     [streams[c] EXCEPT !.written = Append(@, [event |-> "log", data |-> safe]),
                        !.pending = @ + 1]]

\* for (const c of clients.values()) c.res.write(payload): the payload goes
\* into the response stream's buffer whatever is already waiting there.
broadcast(streams, ids, safe) ==
  [c \in DOMAIN streams |->
     IF c \in ids
     THEN [streams[c] EXCEPT !.written = Append(@, logEvent(safe)),
                             !.pending = @ + 1]
     ELSE streams[c]]

\* a faulty pushLog: it publishes the record as captured
pushLogSafe_raw(log) == log

\* const safe = sanitizeLog(log): what pushLog stores, persists and sends
pushLogSafe(log) == sanitizeLog(log)

\* JSON.stringify(log) + "\n": one line of logs.ndjson
ndjsonLine(log) == [line |-> log]

\* a faulty append: the new line goes in front of the lines not yet on disk
appendSync_newestFirst(safe) ==
  IF current = None \/ writeStream = None
  THEN UNCHANGED <<current, sessions, metaWrites, crashed>>
  ELSE LET sid == Val(writeStream)
           updated == [Val(current) EXCEPT !.logCount = @ + 1]
       IN /\ crashed' = crashed
          /\ sessions' = [sessions EXCEPT ![sid].buf = <<ndjsonLine(safe)>> \o @]
          /\ current' = Some(updated)
          /\ metaWrites' = metaWrites \cup {updated}

\* SessionStore.append up to its await, called by pushLog.  A write to a
\* stream whose end() was called makes the stream emit "error"; it has no
\* listener, so the process ends.
appendSync(safe) ==
  IF current = None \/ writeStream = None
  THEN UNCHANGED <<current, sessions, metaWrites, crashed>>
  ELSE LET sid == Val(writeStream)
           updated == [Val(current) EXCEPT !.logCount = @ + 1]
       IN /\ IF sessions[sid].ended
             THEN /\ crashed' = TRUE
                  /\ sessions' = sessions
             ELSE /\ crashed' = crashed
                  /\ sessions' = [sessions EXCEPT ![sid].buf =
                                    Append(@, ndjsonLine(safe))]
          /\ current' = Some(updated)
          /\ metaWrites' = metaWrites \cup {updated}

\* pushLog(log)
pushLog(log) ==
  LET safe == pushLogSafe(log)
  IN /\ logs' = ringInsert(logs, safe)
     /\ appendSync(safe)
     /\ sse' = broadcast(sse, clients, safe)
     /\ emitted' = Append(emitted, log)
     /\ UNCHANGED <<clients, writeStream, tasks, clearedAt>>

\* what the capture side hands to pushLog: a sanitizable exchange, or a bare
\* one with nothing to redact
EmitShapes ==
  { [reqHeaders |-> {k_Authorization, k_XTrace}, search |-> <<k_token, k_page>>,
     reqBody |-> "json", res |-> "cookie"] }

\* a proxy component emits a record
Emit ==
  /\ ~crashed
  /\ Len(emitted) < MaxEmits
  /\ \E shape \in EmitShapes :
       pushLog([captured(shape, "s3cr3t-A") EXCEPT !.id = <<"emit", Len(emitted) + 1>>])
  /\ UNCHANGED notHubVars

\* app.get("/events")
Subscribe ==
  /\ ~crashed
  /\ Len(sse) < MaxSubscribers
  /\ LET id == Len(sse) + 1
     IN /\ clients' = clients \cup {id}
        /\ sse' = Append(sse, [written |-> <<helloEvent(id)>>, pending |-> 1,
                               subAt |-> Len(emitted), closedAt |-> None])
  /\ UNCHANGED <<logs, current, writeStream, sessions, metaWrites, tasks,
                 crashed, emitted, clearedAt>>
  /\ UNCHANGED notHubVars

\* req.on("close") of an /events request
SubscriberClose(id) ==
  /\ ~crashed
  /\ id \in clients
  /\ clients' = clients \ {id}
  /\ sse' = [sse EXCEPT ![id].closedAt = Some(Len(emitted))]
  /\ UNCHANGED <<logs, current, writeStream, sessions, metaWrites, tasks,
                 crashed, emitted, clearedAt>>
  /\ UNCHANGED notHubVars

\* the subscriber's socket takes what its response stream has buffered
SubscriberDrain(id) ==
  /\ ~crashed
  /\ id \in clients
  /\ sse[id].pending > 0
  /\ sse' = [sse EXCEPT ![id].pending = 0]
  /\ UNCHANGED <<logs, clients, current, writeStream, sessions, metaWrites,
                 tasks, crashed, emitted, clearedAt>>
  /\ UNCHANGED notHubVars

\* a faulty /api/clear: it forgets the subscribers with the ring
Clear_dropSubscribers ==
  /\ ~crashed
  /\ logs' = <<>>
  /\ clients' = {}
  /\ clearedAt' = Len(emitted)
  /\ UNCHANGED <<sse, current, writeStream, sessions, metaWrites,
                 tasks, crashed, emitted>>
  /\ UNCHANGED notHubVars

\* app.post("/api/clear")
Clear ==
  /\ ~crashed
  /\ logs' = <<>>
  /\ clearedAt' = Len(emitted)
  /\ UNCHANGED <<clients, sse, current, writeStream, sessions, metaWrites,
                 tasks, crashed, emitted>>
  /\ UNCHANGED notHubVars

(***************************************************************************)
(* sessionStore.ts                                                         *)
(*                                                                         *)
(* A SessionMeta is [id, logCount, endedAt]; endedAt is whether the field  *)
(* is set.  A session directory is [meta, file, buf, ended]: the content   *)
(* of meta.json (optional), the lines of logs.ndjson on disk, the lines    *)
(* written to the write stream and not yet on disk, and whether end() was  *)
(* called on the stream; report is the content of report.json (optional)   *)
(* and reportWrites counts the times it was written.  A start()/stop()     *)
(* call is a task                                                          *)
(* [op, pc, sid, stopMeta, stream], pc naming the await it is at.          *)
(***************************************************************************)
newSession ==
  [meta |-> None, file |-> <<>>, buf |-> <<>>, ended |-> FALSE,
   report |-> None, reportWrites |-> 0]

\* stop() up to its first await, for task i: the meta with endedAt is on
\* its way to meta.json
stopSync(i) ==
  tasks' = [tasks EXCEPT ![i].pc = "stopWrite",
                         ![i].stopMeta = Some([Val(current) EXCEPT !.endedAt = TRUE])]

\* start() after stop(): const id = nanoid(); ...; await fsp.mkdir(dir)
startFresh(i) ==
  /\ sessions' = Append(sessions, newSession)
  /\ tasks' = [tasks EXCEPT ![i].pc = "mkdir", ![i].sid = Len(sessions) + 1]

\* POST /api/sessions/start: start() up to await this.init()
StartCall ==
  /\ ~crashed
  /\ Len(tasks) < MaxCalls
  /\ tasks' = Append(tasks, [op |-> "start", pc |-> "init", sid |-> 0,
                             stopMeta |-> None, stream |-> None])
  /\ UNCHANGED <<logs, clients, sse, current, writeStream, sessions,
                 metaWrites, crashed, emitted, clearedAt>>
  /\ UNCHANGED notHubVars

\* start() resumes after init(): if (this.current) await this.stop()
StartAfterInit(i) ==
  /\ ~crashed
  /\ i \in 1..Len(tasks)
  /\ tasks[i].pc = "init"
  /\ IF current # None
     THEN stopSync(i) /\ UNCHANGED sessions
     ELSE startFresh(i)
  /\ UNCHANGED <<logs, clients, sse, current, writeStream, metaWrites,
                 crashed, emitted, clearedAt>>
  /\ UNCHANGED notHubVars

\* POST /api/sessions/stop: stop() up to its first await
StopCall ==
  /\ ~crashed
  /\ Len(tasks) < MaxCalls
  /\ current # None
  /\ tasks' = Append(tasks, [op |-> "stop", pc |-> "stopWrite", sid |-> 0,
                             stopMeta |-> Some([Val(current) EXCEPT !.endedAt = TRUE]),
                             stream |-> None])
  /\ UNCHANGED <<logs, clients, sse, current, writeStream, sessions,
                 metaWrites, crashed, emitted, clearedAt>>
  /\ UNCHANGED notHubVars

\* stop() after this.writeStream = null; this.current = null
stopReturn(i) ==
  IF tasks[i].op = "stop"
  THEN /\ tasks' = [tasks EXCEPT ![i].pc = "done"]
       /\ UNCHANGED sessions
  ELSE startFresh(i)

\* stop() resumes after writing meta.json: it ends the write stream, or
\* has none to end
StopWriteDone(i) ==
  /\ ~crashed
  /\ i \in 1..Len(tasks)
  /\ tasks[i].pc = "stopWrite"
  /\ LET meta == Val(tasks[i].stopMeta)
         written == [sessions EXCEPT ![meta.id].meta = Some(meta)]
     IN IF writeStream = None
        THEN /\ current' = None
             /\ writeStream' = None
             /\ IF tasks[i].op = "stop"
                THEN /\ tasks' = [tasks EXCEPT ![i].pc = "done"]
                     /\ sessions' = written
                ELSE /\ sessions' = Append(written, newSession)
                     /\ tasks' = [tasks EXCEPT ![i].pc = "mkdir",
                                               ![i].sid = Len(sessions) + 1]
        ELSE /\ sessions' = [written EXCEPT ![Val(writeStream)].ended = TRUE]
             /\ tasks' = [tasks EXCEPT ![i].pc = "stopEnd",
                                       ![i].stream = writeStream]
             /\ UNCHANGED <<current, writeStream>>
  /\ UNCHANGED <<logs, clients, sse, metaWrites, crashed, emitted, clearedAt>>
  /\ UNCHANGED notHubVars

\* the callback of writeStream.end(): everything written is on disk
StopEndDone(i) ==
  /\ ~crashed
  /\ i \in 1..Len(tasks)
  /\ tasks[i].pc = "stopEnd"
  /\ sessions[Val(tasks[i].stream)].buf = <<>>
  /\ writeStream' = None
  /\ current' = None
  /\ stopReturn(i)
  /\ UNCHANGED <<logs, clients, sse, metaWrites, crashed, emitted, clearedAt>>
  /\ UNCHANGED notHubVars

\* start() resumes after mkdir(dir): it writes the new meta.json
StartMkdirDone(i) ==
  /\ ~crashed
  /\ i \in 1..Len(tasks)
  /\ tasks[i].pc = "mkdir"
  /\ tasks' = [tasks EXCEPT ![i].pc = "writeMeta"]
  /\ UNCHANGED <<logs, clients, sse, current, writeStream, sessions,
                 metaWrites, crashed, emitted, clearedAt>>
  /\ UNCHANGED notHubVars

\* start() resumes after writing meta.json: it opens the stream and makes
\* the session current
StartWriteDone(i) ==
  /\ ~crashed
  /\ i \in 1..Len(tasks)
  /\ tasks[i].pc = "writeMeta"
  /\ LET meta == [id |-> tasks[i].sid, logCount |-> 0, endedAt |-> FALSE]
     IN /\ sessions' = [sessions EXCEPT ![meta.id].meta = Some(meta)]
        /\ writeStream' = Some(meta.id)
        /\ current' = Some(meta)
  /\ tasks' = [tasks EXCEPT ![i].pc = "done"]
  /\ UNCHANGED <<logs, clients, sse, metaWrites, crashed, emitted, clearedAt>>
  /\ UNCHANGED notHubVars

\* a meta.json write started by append() completes; when it fails the
\* promise rejects and pushLog's .catch logs it
MetaWriteDone(meta, ok) ==
  /\ ~crashed
  /\ meta \in metaWrites
  /\ metaWrites' = metaWrites \ {meta}
  /\ sessions' = IF ok THEN [sessions EXCEPT ![meta.id].meta = Some(meta)]
                 ELSE sessions
  /\ UNCHANGED <<logs, clients, sse, current, writeStream, tasks, crashed,
                 emitted, clearedAt>>
  /\ UNCHANGED notHubVars

\* the write stream puts its oldest buffered line on disk
StreamFlush(sid) ==
  /\ ~crashed
  /\ sid \in 1..Len(sessions)
  /\ sessions[sid].buf # <<>>
  /\ sessions' = [sessions EXCEPT ![sid].file = Append(@, Head(sessions[sid].buf)),
                                  ![sid].buf = Tail(@)]
  /\ UNCHANGED <<logs, clients, sse, current, writeStream, metaWrites, tasks,
                 crashed, emitted, clearedAt>>
  /\ UNCHANGED notHubVars

\* the write fails (disk full, I/O error): the stream emits "error", which
\* has no listener (createWriteStream in start(), write() in append()), and
\* the process ends on the uncaught exception
StreamWriteError(sid) ==
  /\ ~crashed
  /\ sid \in 1..Len(sessions)
  /\ sessions[sid].buf # <<>>
  /\ crashed' = TRUE
  /\ UNCHANGED <<logs, clients, sse, current, writeStream, sessions,
                 metaWrites, tasks, emitted, clearedAt>>
  /\ UNCHANGED notHubVars

HubInit ==
  /\ logs = <<>>
  /\ clients = {}
  /\ sse = <<>>
  /\ current = None
  /\ writeStream = None
  /\ sessions = <<>>
  /\ metaWrites = {}
  /\ tasks = <<>>
  /\ crashed = FALSE
  /\ emitted = <<>>
  /\ clearedAt = 0

\* the ring and the fan-out
FanoutNext ==
  \/ Emit
  \/ Subscribe
  \/ \E id \in 1..MaxSubscribers : SubscriberClose(id)
  \/ Clear

\* the fan-out with subscribers that read at their own pace
QueueNext ==
  \/ Emit
  \/ Subscribe
  \/ \E id \in 1..MaxSubscribers :
       \/ SubscriberClose(id)
       \/ SubscriberDrain(id)

\* every meta.json content a session can have
Metas ==
  [id : 1..MaxCalls, logCount : 0..MaxEmits, endedAt : BOOLEAN]

\* the session store under pushLog
SessionNext ==
  \/ Emit
  \/ StartCall
  \/ StopCall
  \/ \E i \in 1..MaxCalls :
       \/ StartAfterInit(i)
       \/ StopWriteDone(i)
       \/ StopEndDone(i)
       \/ StartMkdirDone(i)
       \/ StartWriteDone(i)
  \/ \E meta \in Metas :
       \/ MetaWriteDone(meta, TRUE)
       \/ MetaWriteDone(meta, FALSE)
  \/ \E sid \in 1..MaxCalls :
       \/ StreamFlush(sid)
       \/ StreamWriteError(sid)

\* everything that writes a record somewhere: the ring, the subscribers'
\* streams and the lines of logs.ndjson, with sessions starting and stopping
PublishNext ==
  \/ Emit
  \/ Subscribe
  \/ StartCall
  \/ StopCall
  \/ \E i \in 1..MaxCalls :
       \/ StartAfterInit(i)
       \/ StopWriteDone(i)
       \/ StopEndDone(i)
       \/ StartMkdirDone(i)
       \/ StartWriteDone(i)
  \/ \E sid \in 1..MaxCalls : StreamFlush(sid)

\* the ring cleared while records are pushed, subscribers listen and a
\* session records
ClearNext ==
  \/ Emit
  \/ Subscribe
  \/ Clear
  \/ StartCall
  \/ \E i \in 1..MaxCalls :
       \/ StartAfterInit(i)
       \/ StartMkdirDone(i)
       \/ StartWriteDone(i)
  \/ \E sid \in 1..MaxCalls : StreamFlush(sid)

\* the lines of logs.ndjson: the records emitted, sessions starting and
\* stopping, the stream writing
AppendNext ==
  \/ Emit
  \/ StartCall
  \/ StopCall
  \/ \E i \in 1..MaxCalls :
       \/ StartAfterInit(i)
       \/ StopWriteDone(i)
       \/ StopEndDone(i)
       \/ StartMkdirDone(i)
       \/ StartWriteDone(i)
  \/ \E sid \in 1..MaxCalls : StreamFlush(sid)

(***************************************************************************)
(* proxy.ts: startForwardProxy, plain HTTP                                 *)
(*                                                                         *)
(* An exchange is the closure of one createServer callback:                *)
(*   phase         "idle" (no request yet), "rejected" (400), "open"       *)
(*   req, target   the client request and its target URL                   *)
(*   done          finishOnce's flag                                       *)
(*   headersSent, writableEnded, destroyed    of clientRes                 *)
(*   clientWrites  the status lines written to the client, in order        *)
(*   res           the upstream response: "none", "streaming", "ended",    *)
(*                 "errored"                                               *)
(*   upRes         the upstream response's head and body (optional)        *)
(*   reqDestroyed  upstreamReq was destroyed or its socket is gone         *)
(*   pendingErr    the error upstreamReq will emit (optional)              *)
(*   reqErrored    upstreamReq emitted "error"                             *)
(*   clientClosed  clientRes emitted "close"                               *)
(*   upstreamFailed  history: an upstream failure was handled before the   *)
(*                 success end                                             *)
(***************************************************************************)
MaxExchanges == 2
MaxTunnels == 2

UPSTREAM_TIMEOUT_MS == 15000

newExchange ==
  [phase |-> "idle", req |-> None, target |-> None, done |-> FALSE,
   headersSent |-> FALSE, writableEnded |-> FALSE, destroyed |-> FALSE,
   clientWrites |-> <<>>, res |-> "none", upRes |-> None,
   reqDestroyed |-> FALSE, pendingErr |-> None, reqErrored |-> FALSE,
   clientClosed |-> FALSE, upstreamFailed |-> FALSE]

\* what a client may send: absolute-form, origin-form with a Host header,
\* and a target that is no URL with no Host header
ClientRequests ==
  { [method |-> "GET",
     url |-> [form |-> "absolute",
              href |-> [protocol |-> "http:", host |-> "example.com",
                        pathname |-> "/v1/users",
                        search |-> << <<k_token, "s3cr3t-A">> >>]],
     headers |-> (k_authorization :> <<"Bearer s3cr3t-A">>),
     contentType |-> m_none, body |-> RawText("")],
    [method |-> "POST",
     url |-> [form |-> "origin", pathname |-> "/login", search |-> <<>>],
     headers |-> (k_host :> <<"example.com">>),
     contentType |-> MIME_JSON,
     body |-> JSON_stringify(JObj(<< <<k_password, JStr("s3cr3t-A")>> >>), 0)],
    [method |-> "GET",
     url |-> [form |-> "invalid"],
     headers |-> <<>>,
     contentType |-> m_none, body |-> RawText("")] }

UpstreamResponses ==
  { [statusCode |-> 200,
     headers |-> (k_SetCookie :> <<"sid=s3cr3t-A">>),
     contentType |-> MIME_JSON,
     body |-> JSON_stringify(JObj(<< <<k_name, JStr("y")>> >>), 0)] }

\* socket-level failures of the upstream request
TransportErrors == { [code |-> "ECONNRESET", message |-> "read ECONNRESET"] }
TimeoutError == [code |-> "ETIMEDOUT", message |-> "upstream timeout"]
HangUpError == [code |-> "ECONNRESET", message |-> "socket hang up"]

\* safeUrlFromRequest
\* a faulty safeUrlFromRequest: it forms a URL from the Host header without
\* looking whether there is one, and from any target
safeUrlFromRequest_anyHost(req) ==
  IF req.url.form = "absolute" THEN Some(req.url.href)
  ELSE Some([protocol |-> "http:",
             host |-> IF k_host \in DOMAIN req.headers
                      THEN join(req.headers[k_host]) ELSE "undefined",
             pathname |-> IF req.url.form = "origin" THEN req.url.pathname ELSE "/",
             search |-> IF req.url.form = "origin" THEN req.url.search ELSE <<>>])

safeUrlFromRequest(req) ==
  IF req.url.form = "absolute" THEN Some(req.url.href)
  ELSE IF k_host \notin DOMAIN req.headers THEN None
  ELSE IF req.url.form = "origin"
       THEN Some([protocol |-> "http:", host |-> join(req.headers[k_host]),
                  pathname |-> req.url.pathname, search |-> req.url.search])
       ELSE None

clientWrite(status, from) == [status |-> status, from |-> from]

\* finishOnce(): whether this call is the first
finishOnce(x) == ~x.done

\* a faulty safeFail: it answers with the status whatever was sent before
safeFail_alwaysResponds(x, status) ==
  IF x.done THEN x
  ELSE [x EXCEPT !.done = TRUE,
                 !.clientWrites = Append(@, clientWrite(status, "safeFail")),
                 !.headersSent = TRUE,
                 !.writableEnded = TRUE]

\* safeFail(status, msg) on the closure x
safeFail(x, status) ==
  IF ~finishOnce(x) THEN x
  ELSE IF x.headersSent \/ x.writableEnded
       THEN [x EXCEPT !.done = TRUE, !.destroyed = TRUE]
       ELSE [x EXCEPT !.done = TRUE,
                      !.clientWrites = Append(@, clientWrite(status, "safeFail")),
                      !.headersSent = TRUE,
                      !.writableEnded = TRUE]

\* whether the "error" handler of upstreamReq pushes its minimal record
reqErrorPushes(x) == TRUE

\* createServer callback: a request arrives
ClientRequest(e, req) ==
  /\ ex[e].phase = "idle"
  /\ \A d \in 1..(e - 1) : ex[d].phase # "idle"
  /\ LET targetUrl == safeUrlFromRequest(req)
     IN IF targetUrl = None
        THEN ex' = [ex EXCEPT ![e] =
                      [@ EXCEPT !.phase = "rejected", !.req = Some(req),
                                !.clientWrites = Append(@, clientWrite(400, "badRequest")),
                                !.headersSent = TRUE, !.writableEnded = TRUE]]
        ELSE ex' = [ex EXCEPT ![e] =
                      [@ EXCEPT !.phase = "open", !.req = Some(req),
                                !.target = targetUrl]]
  /\ UNCHANGED <<tun, hubVars, sanVars, sideVars>>

\* the callback of upstreamLib.request: the upstream response's head arrived
UpstreamResponse(e, upstreamRes) ==
  /\ ex[e].phase = "open"
  /\ ex[e].res = "none"
  /\ ~ex[e].reqDestroyed
  /\ ex' = [ex EXCEPT ![e] =
              IF ~@.headersSent
              THEN [@ EXCEPT !.res = "streaming", !.upRes = Some(upstreamRes),
                             !.clientWrites =
                               Append(@, clientWrite(upstreamRes.statusCode, "upstream")),
                             !.headersSent = TRUE]
              ELSE [@ EXCEPT !.res = "streaming", !.upRes = Some(upstreamRes)]]
  /\ UNCHANGED <<tun, hubVars, sanVars, sideVars>>

\* upstreamRes "end": the pipe ends clientRes, the handler pushes the record
UpstreamResEnd(e) ==
  /\ ex[e].phase = "open"
  /\ ex[e].res = "streaming"
  /\ ~ex[e].reqDestroyed
  /\ ex' = [ex EXCEPT ![e] = [@ EXCEPT !.res = "ended", !.done = TRUE,
                                       !.writableEnded = TRUE]]
  /\ IF finishOnce(ex[e])
     THEN pushLog(successLog(<<"http", e>>, Val(ex[e].req), Val(ex[e].target),
                             Val(ex[e].upRes)))
     ELSE UNCHANGED hubVars
  /\ UNCHANGED <<tun, sanVars, sideVars>>

\* upstreamRes "error": the upstream closed in mid-body, or the socket was
\* destroyed under the response (aborted)
UpstreamResError(e) ==
  /\ ex[e].phase = "open"
  /\ ex[e].res = "streaming"
  /\ LET x == safeFail(ex[e], 502)
     IN ex' = [ex EXCEPT ![e] =
                 [x EXCEPT !.res = "errored", !.reqDestroyed = TRUE,
                           !.upstreamFailed = @ \/ ~ex[e].reqDestroyed]]
  /\ UNCHANGED <<tun, hubVars, sanVars, sideVars>>

\* upstreamReq.setTimeout callback: upstreamReq.destroy(err).  The timeout
\* listener is taken off the socket when the response ends.
UpstreamTimeout(e) ==
  /\ ex[e].phase = "open"
  /\ ~ex[e].reqDestroyed
  /\ ex[e].res # "ended"
  /\ ex' = [ex EXCEPT ![e] =
              [@ EXCEPT !.reqDestroyed = TRUE, !.pendingErr = Some(TimeoutError)]]
  /\ UNCHANGED <<tun, hubVars, sanVars, sideVars>>

\* upstreamReq "error": a socket failure, or the error it was destroyed with
UpstreamReqError(e, err) ==
  /\ ex[e].phase = "open"
  /\ ~ex[e].reqErrored
  /\ \/ ex[e].pendingErr = Some(err)
     \/ /\ ex[e].pendingErr = None
        /\ ~ex[e].reqDestroyed
        /\ err \in TransportErrors
  /\ LET x == safeFail(ex[e], 502)
     IN ex' = [ex EXCEPT ![e] =
                 [x EXCEPT !.reqErrored = TRUE, !.reqDestroyed = TRUE,
                           !.pendingErr = None,
                           !.upstreamFailed =
                             @ \/ (err # HangUpError /\ ex[e].res # "ended")]]
  /\ IF reqErrorPushes(ex[e])
     THEN pushLog(failureLog(<<"http", e>>, Val(ex[e].req), Val(ex[e].target), err))
     ELSE UNCHANGED hubVars
  /\ UNCHANGED <<tun, sanVars, sideVars>>

\* faulty handlers of "aborted" and "close": they leave the upstream request
\* alone
ClientClose_keepsUpstream(e) ==
  /\ ex[e].phase = "open"
  /\ ~ex[e].clientClosed
  /\ ex' = [ex EXCEPT ![e] = [@ EXCEPT !.clientClosed = TRUE]]
  /\ UNCHANGED <<tun, hubVars, sanVars, sideVars>>

\* clientReq "aborted" / clientRes "close": upstreamReq.destroy(); before
\* the response a destroyed request emits "socket hang up"
ClientClose(e) ==
  /\ ex[e].phase = "open"
  /\ ~ex[e].clientClosed
  /\ ex' = [ex EXCEPT ![e] =
              IF @.reqDestroyed
              THEN [@ EXCEPT !.clientClosed = TRUE]
              ELSE [@ EXCEPT !.clientClosed = TRUE, !.reqDestroyed = TRUE,
                             !.pendingErr = IF ex[e].res = "none"
                                            THEN Some(HangUpError) ELSE None]]
  /\ UNCHANGED <<tun, hubVars, sanVars, sideVars>>

(***************************************************************************)
(* proxy.ts: server.on("connect"), the CONNECT tunnel                      *)
(*                                                                         *)
(* A tunnel is the closure of one "connect" callback:                      *)
(*   phase        "idle" (no request yet), "connecting", "established"     *)
(*   req, host, port    the CONNECT request and its parsed target          *)
(*   finished     finish's flag                                            *)
(*   clientWrites what the proxy itself wrote into the client socket       *)
(*   clientDestroyed, serverDestroyed   the socket is destroyed or closed  *)
(*   clientClosed, serverClosed         the socket emitted "close"         *)
(*   failedEarly  history: a socket error came before the tunnel was       *)
(*                established                                             *)
(***************************************************************************)
newTunnel ==
  [phase |-> "idle", req |-> None, host |-> "", port |-> 0, finished |-> FALSE,
   clientWrites |-> <<>>, clientDestroyed |-> FALSE, serverDestroyed |-> FALSE,
   clientClosed |-> FALSE, serverClosed |-> FALSE, failedEarly |-> FALSE]

\* CONNECT requests: the target is host ":" port, the port may be missing
ConnectRequests ==
  { [url |-> [host |-> "example.com", port |-> Some(8443)],
     headers |-> (k_host :> <<"example.com:8443">>)],
    [url |-> [host |-> "example.org", port |-> None],
     headers |-> <<>>] }

\* Number(portStr || 443) || 443
connectPort(portStr) ==
  IF portStr = None THEN 443
  ELSE IF Val(portStr) = 0 THEN 443 ELSE Val(portStr)

\* the record finish(status) pushes
connectLog(id, req, host, port, status) ==
  [id |-> id,
   method |-> "CONNECT",
   url |-> [origin |-> "https://" \o host \o ":" \o ToString(port),
            pathname |-> "", search |-> <<>>],
   host |-> host \o ":" \o ToString(port),
   path |-> "",
   status |-> Some(status),
   request |-> [headers |-> headersToRecord(req.headers), query |-> None,
                body |-> None],
   response |-> Some([headers |-> Some(<<>>),
                      body |-> Some([mime |-> m_none, text |-> RawText("")])])]

\* a faulty finish: it has no guard
finishPushes_always(x) == TRUE

\* finish(status): whether this call pushes
finishPushes(x) == ~x.finished

\* finish(status) in tunnel t, whose closure becomes x
finish(t, x, status) ==
  /\ tun' = [tun EXCEPT ![t] = [x EXCEPT !.finished = TRUE]]
  /\ IF finishPushes(tun[t])
     THEN pushLog(connectLog(<<"connect", t>>, Val(x.req), x.host, x.port, status))
     ELSE UNCHANGED hubVars

\* server.on("connect"): net.connect(port, host) starts
ConnectRequest(t, req) ==
  /\ tun[t].phase = "idle"
  /\ \A d \in 1..(t - 1) : tun[d].phase # "idle"
  /\ tun' = [tun EXCEPT ![t] =
               [@ EXCEPT !.phase = "connecting", !.req = Some(req),
                         !.host = req.url.host,
                         !.port = connectPort(req.url.port)]]
  /\ UNCHANGED <<ex, hubVars, sanVars, sideVars>>

\* the connect listener of net.connect: the upstream connection is up
TunnelConnected(t) ==
  /\ tun[t].phase = "connecting"
  /\ ~tun[t].serverDestroyed
  /\ finish(t, [tun[t] EXCEPT
                  !.phase = "established",
                  !.clientWrites =
                    IF tun[t].clientDestroyed THEN @
                    ELSE Append(@, "HTTP/1.1 200 Connection Established")],
            200)
  /\ UNCHANGED <<ex, sanVars, sideVars>>

\* onError as the "error" listener of serverSocket
ServerSocketError(t) ==
  /\ tun[t].phase # "idle"
  /\ ~tun[t].serverDestroyed
  /\ finish(t, [tun[t] EXCEPT
                  !.clientWrites =
                    IF tun[t].clientDestroyed THEN @
                    ELSE Append(@, "HTTP/1.1 502 Bad Gateway"),
                  !.clientDestroyed = TRUE,
                  !.serverDestroyed = TRUE,
                  !.failedEarly = @ \/ tun[t].phase = "connecting"],
            502)
  /\ UNCHANGED <<ex, sanVars, sideVars>>

\* onError as the "error" listener of clientSocket: the socket that failed is
\* already destroyed, so the 502 line written to it goes nowhere
ClientSocketError(t) ==
  /\ tun[t].phase # "idle"
  /\ ~tun[t].clientDestroyed
  /\ finish(t, [tun[t] EXCEPT
                  !.clientDestroyed = TRUE,
                  !.serverDestroyed = TRUE,
                  !.failedEarly = @ \/ tun[t].phase = "connecting"],
            502)
  /\ UNCHANGED <<ex, sanVars, sideVars>>

\* clientSocket "close": serverSocket.destroy()
ClientSocketClose(t) ==
  /\ tun[t].phase # "idle"
  /\ ~tun[t].clientClosed
  /\ tun' = [tun EXCEPT ![t] =
               [@ EXCEPT !.clientClosed = TRUE, !.clientDestroyed = TRUE,
                         !.serverDestroyed = TRUE]]
  /\ UNCHANGED <<ex, hubVars, sanVars, sideVars>>

\* serverSocket "close": clientSocket.destroy().  A socket that is still
\* connecting closes only once destroyed.
ServerSocketClose(t) ==
  /\ tun[t].phase # "idle"
  /\ ~tun[t].serverClosed
  /\ tun[t].serverDestroyed \/ tun[t].phase = "established"
  /\ tun' = [tun EXCEPT ![t] =
               [@ EXCEPT !.serverClosed = TRUE, !.serverDestroyed = TRUE,
                         !.clientDestroyed = TRUE]]
  /\ UNCHANGED <<ex, hubVars, sanVars, sideVars>>

\* plain HTTP exchanges
ProxyNext ==
  \E e \in 1..MaxExchanges :
       \/ \E req \in ClientRequests : ClientRequest(e, req)
       \/ \E upstreamRes \in UpstreamResponses : UpstreamResponse(e, upstreamRes)
       \/ UpstreamResEnd(e)
       \/ UpstreamResError(e)
       \/ UpstreamTimeout(e)
       \/ \E err \in TransportErrors \cup {TimeoutError, HangUpError} :
            UpstreamReqError(e, err)
       \/ ClientClose(e)

\* CONNECT tunnels
TunnelNext ==
  \E t \in 1..MaxTunnels :
       \/ \E req \in ConnectRequests : ConnectRequest(t, req)
       \/ TunnelConnected(t)
       \/ ServerSocketError(t)
       \/ ClientSocketError(t)
       \/ ClientSocketClose(t)
       \/ ServerSocketClose(t)

(***************************************************************************)
(* sessionStore.ts: readLogs                                               *)
(*                                                                         *)
(* The session file is a sequence of lines; a line is the JSON of a record *)
(* [k |-> "rec", id], text that does not parse [k |-> "bad"], or empty     *)
(* [k |-> "empty"].                                                        *)
(***************************************************************************)
MaxLines == 4    \* lines of a session file read back
MaxLimit == 3    \* the limit of a read

PureIdle ==
  /\ call = [fn |-> "none"]
  /\ ret = None

RecLine(id) == [k |-> "rec", id |-> id]
BadLine == [k |-> "bad"]
EmptyLine == [k |-> "empty"]
FileLines == {RecLine(1), RecLine(2), BadLine, EmptyLine}

RECURSIVE SeqsUpTo(_, _)
SeqsUpTo(S, n) ==
  IF n = 0 THEN {<<>>}
  ELSE LET shorter == SeqsUpTo(S, n - 1)
       IN shorter \cup { Append(q, x) : q \in { r \in shorter : Len(r) = n - 1 }, x \in S }

\* readLogs(id, limit): known is whether read(id) finds a meta, readable
\* whether readFile(logsPath) succeeds
readLogs(known, readable, file, limit) ==
  IF ~known THEN <<>>
  ELSE LET txt == IF readable THEN file ELSE <<>>
           lines == SelectSeq(txt, LAMBDA l : l.k # "empty")
           from == IF Len(lines) - limit > 0 THEN Len(lines) - limit ELSE 0
           slice == SubSeq(lines, from + 1, Len(lines))
           items == SelectSeq(slice, LAMBDA l : l.k = "rec")
       IN [i \in 1..Len(items) |-> items[i].id]

ReadInit ==
  /\ \E known \in BOOLEAN : \E readable \in BOOLEAN :
     \E file \in SeqsUpTo(FileLines, MaxLines) : \E limit \in 0..MaxLimit :
       call = [fn |-> "readLogs", known |-> known, readable |-> readable,
               file |-> file, limit |-> limit]
  /\ ret = None

\* GET /api/sessions/:id/logs
ReadLogs ==
  /\ call.fn = "readLogs"
  /\ ret = None
  /\ ret' = Some(readLogs(call.known, call.readable, call.file, call.limit))
  /\ UNCHANGED <<call, capVars, stripVars, sanVars, hubVars, proxyVars>>

ReadNext == ReadLogs

(***************************************************************************)
(* normalize.ts: normalizePath                                             *)
(*                                                                         *)
(* A path is its characters.                                               *)
(***************************************************************************)
MaxSegments == 3    \* "/"-separated pieces of a path

DIGITS == {"0","1","2","3","4","5","6","7","8","9"}
HEX == DIGITS \cup {"a","b","c","d","e","f","A","B","C","D","E","F"}

\* /^[0-9a-f]{8}-[0-9a-f]{4}-[1-5][0-9a-f]{3}-[89ab][0-9a-f]{3}-[0-9a-f]{12}$/i
isUuid(seg) ==
  /\ Len(seg) = 36
  /\ \A i \in 1..36 :
       CASE i \in {9, 14, 19, 24} -> seg[i] = "-"
         [] i = 15 -> seg[i] \in {"1","2","3","4","5"}
         [] i = 20 -> seg[i] \in {"8","9","a","b","A","B"}
         [] OTHER -> seg[i] \in HEX

\* /^[0-9a-f]{16,}$/i
isHash(seg) == Len(seg) >= 16 /\ \A i \in 1..Len(seg) : seg[i] \in HEX

\* /^\d+$/
isNumeric(seg) == Len(seg) >= 1 /\ \A i \in 1..Len(seg) : seg[i] \in DIGITS

\* path.replace(/\/+$/, ""): without the slashes at its end
RECURSIVE stripTrailingSlashes(_)
stripTrailingSlashes(path) ==
  IF path # <<>> /\ path[Len(path)] = "/"
  THEN stripTrailingSlashes(SubSeq(path, 1, Len(path) - 1))
  ELSE path

\* path.split("/"): the pieces between the slashes, in order
splitSlash(chars) ==
  LET cuts == {i \in 1..Len(chars) : chars[i] = "/"}
      cut(k) == IF k = 0 THEN 0
                ELSE IF k > Cardinality(cuts) THEN Len(chars) + 1
                ELSE CHOOSE i \in cuts : Cardinality({j \in cuts : j < i}) = k - 1
  IN [k \in 1..(Cardinality(cuts) + 1) |-> SubSeq(chars, cut(k - 1) + 1, cut(k) - 1)]

\* the callback of parts.map
normalizeSegment(seg) ==
  IF seg = <<>> THEN seg
  ELSE IF isUuid(seg) THEN <<":","u","u","i","d">>
  ELSE IF isHash(seg) THEN <<":","h","a","s","h">>
  ELSE IF isNumeric(seg) THEN <<":","i","d">>
  ELSE seg

\* a faulty normalizePath: it strips one slash from the end
normalizePath_stripOne(path) ==
  LET clean == IF Len(path) > 1 /\ path[Len(path)] = "/"
               THEN SubSeq(path, 1, Len(path) - 1) ELSE path
      parts == splitSlash(clean)
  IN joinChars([i \in 1..Len(parts) |-> normalizeSegment(parts[i])], <<"/">>)

normalizePath(path) ==
  LET clean == IF Len(path) > 1 THEN stripTrailingSlashes(path) ELSE path
      parts == splitSlash(clean)
  IN joinChars([i \in 1..Len(parts) |-> normalizeSegment(parts[i])], <<"/">>)

\* the pieces paths are made of: plain words, numbers, hashes, UUIDs and
\* near-UUIDs, placeholders, and nothing (two slashes in a row, or one at
\* the end)
seg_users == <<"u","s","e","r","s">>
seg_42 == <<"4","2">>
seg_12a == <<"1","2","a">>
seg_digits15 == <<"1","2","3","4","5","6","7","8","9","0","1","2","3","4","5">>
seg_digits16 == <<"1","2","3","4","5","6","7","8","9","0","1","2","3","4","5","6">>
seg_hex16 == <<"0","1","2","3","4","5","6","7","8","9","a","b","c","d","e","f">>
seg_HEX18 == <<"D","E","A","D","B","E","E","F","d","e","a","d","b","e","e","f","0","0">>
seg_uuid4 == <<"5","5","0","e","8","4","0","0","-","e","2","9","b","-","4","1","d","4","-","a","7","1","6","-","4","4","6","6","5","5","4","4","0","0","0","0">>
seg_UUID1 == <<"5","5","0","E","8","4","0","0","-","E","2","9","B","-","1","1","D","4","-","B","7","1","6","-","4","4","6","6","5","5","4","4","0","0","0","0">>
seg_uuid6 == <<"5","5","0","e","8","4","0","0","-","e","2","9","b","-","6","1","d","4","-","a","7","1","6","-","4","4","6","6","5","5","4","4","0","0","0","0">>
seg_id == <<":","i","d">>
seg_uuid == <<":","u","u","i","d">>
seg_hash == <<":","h","a","s","h">>

Segments ==
  {<<>>, seg_users, seg_42, seg_12a, seg_digits15, seg_digits16, seg_hex16,
   seg_HEX18, seg_uuid4, seg_UUID1, seg_uuid6, seg_id, seg_uuid, seg_hash}

\* u.pathname: a slash, then segments with slashes between them
Paths ==
  { <<"/">> \o joinChars(segs, <<"/">>) : segs \in SeqsUpTo(Segments, MaxSegments) }

NormalizeInit ==
  /\ \E path \in Paths : call = [fn |-> "normalizePath", path |-> path, again |-> FALSE]
  /\ ret = None

\* normalizePath(u.pathname)
Normalize ==
  /\ call.fn = "normalizePath"
  /\ ret = None
  /\ ret' = Some(normalizePath(call.path))
  /\ UNCHANGED <<call, capVars, stripVars, sanVars, hubVars, proxyVars>>

\* normalizePath of what normalizePath returned
NormalizeAgain ==
  /\ call.fn = "normalizePath"
  /\ IsSome(ret)
  /\ ~call.again
  /\ call' = [fn |-> "normalizePath", path |-> Val(ret), again |-> TRUE,
               from |-> call.path]
  /\ ret' = Some(normalizePath(Val(ret)))
  /\ UNCHANGED <<capVars, stripVars, sanVars, hubVars, proxyVars>>

NormalizeNext == Normalize \/ NormalizeAgain

(***************************************************************************)
(* proxy.ts: stripHopByHop                                                 *)
(*                                                                         *)
(* A header map is a function from names to values, both characters.       *)
(***************************************************************************)
k_connection == <<"c","o","n","n","e","c","t","i","o","n">>  \* connection
k_Connection == <<"C","o","n","n","e","c","t","i","o","n">>  \* Connection
k_CONNECTION == <<"C","O","N","N","E","C","T","I","O","N">>  \* CONNECTION
k_proxy_connection == <<"p","r","o","x","y","-","c","o","n","n","e","c","t","i","o","n">>  \* proxy-connection
k_Proxy_Connection == <<"P","r","o","x","y","-","C","o","n","n","e","c","t","i","o","n">>  \* Proxy-Connection
k_keep_alive == <<"k","e","e","p","-","a","l","i","v","e">>  \* keep-alive
k_Keep_Alive == <<"K","e","e","p","-","A","l","i","v","e">>  \* Keep-Alive
k_transfer_encoding == <<"t","r","a","n","s","f","e","r","-","e","n","c","o","d","i","n","g">>  \* transfer-encoding
k_te == <<"t","e">>  \* te
k_trailer == <<"t","r","a","i","l","e","r">>  \* trailer
k_upgrade == <<"u","p","g","r","a","d","e">>  \* upgrade
k_x_foo == <<"x","-","f","o","o">>  \* x-foo
k_X_Foo == <<"X","-","F","o","o">>  \* X-Foo

HOP_BY_HOP ==
  {k_connection, k_proxy_connection, k_keep_alive, k_transfer_encoding, k_te,
   k_trailer, k_upgrade}

\* String.prototype.split(","): the pieces between the commas
RECURSIVE split(_, _)
split(chars, piece) ==
  IF chars = <<>> THEN <<piece>>
  ELSE IF Head(chars) = "," THEN <<piece>> \o split(Tail(chars), <<>>)
  ELSE split(Tail(chars), Append(piece, Head(chars)))

\* String.prototype.trim
RECURSIVE trim(_)
trim(chars) ==
  IF chars = <<>> THEN chars
  ELSE IF Head(chars) = " " THEN trim(Tail(chars))
  ELSE IF chars[Len(chars)] = " " THEN trim(SubSeq(chars, 1, Len(chars) - 1))
  ELSE chars

\* the headers without the names in `names`: delete headers[name]
deleteAll(headers, names) == [k \in DOMAIN headers \ names |-> headers[k]]

\* a faulty stripHopByHop: it does not look at what Connection lists
stripHopByHop_fixedListOnly(headers) ==
  deleteAll(headers, { k \in DOMAIN headers : toLowerCase(k) \in HOP_BY_HOP })

stripHopByHop(headers) ==
  LET conn == IF k_connection \in DOMAIN headers THEN headers[k_connection]
              ELSE IF k_Connection \in DOMAIN headers THEN headers[k_Connection]
              ELSE <<>>
      pieces == split(conn, <<>>)
      listed == { toLowerCase(trim(pieces[i])) : i \in 1..Len(pieces) } \ {<<>>}
      h1 == IF conn # <<>> THEN deleteAll(headers, listed) ELSE headers
      h2 == deleteAll(h1, { k \in DOMAIN h1 : toLowerCase(k) \in HOP_BY_HOP })
  IN deleteAll(h2, {k_connection, k_Connection,
                    k_proxy_connection, k_Proxy_Connection})

\* the header maps handed to stripHopByHop: a Connection header or none,
\* under some spelling of its name, and some of the other headers
ConnectionNames == {k_connection, k_Connection, k_CONNECTION}
ConnectionValues ==
  { <<"c","l","o","s","e">>,
    k_x_foo,
    <<"X","-","F","o","o",","," ","k","e","e","p","-","a","l","i","v","e">>,
    <<" ","x","-","f","o","o"," ",",",",","t","e">> }
OtherNames ==
  {k_host, k_x_foo, k_X_Foo, k_keep_alive, k_Keep_Alive, k_te,
   k_transfer_encoding, k_Proxy_Connection}

HeaderMaps ==
  { [k \in names |-> <<"v">>] : names \in SUBSET OtherNames }
  \cup
  { [k \in names \cup {c} |-> IF k = c THEN v ELSE <<"v">>] :
      names \in SUBSET OtherNames, c \in ConnectionNames, v \in ConnectionValues }

LowerCaseMaps == { h \in HeaderMaps : \A k \in DOMAIN h : toLowerCase(k) = k }

StripInit ==
  /\ hdrIn \in HeaderMaps
  /\ hdrOut = None

\* stripHopByHop(reqHeaders) / stripHopByHop(resHeaders)
StripHopByHop ==
  /\ hdrOut = None
  /\ hdrOut' = Some(stripHopByHop(hdrIn))
  /\ UNCHANGED <<hdrIn, cap, sanVars, hubVars, proxyVars, pureVars>>

StripNext == StripHopByHop

(***************************************************************************)
(* routeReport.ts: buildRouteReport                                        *)
(*                                                                         *)
(* A log, as the report reads it, is [url, ts, method, status, reqMime,    *)
(* resMime, reqText, resText]: url is what new URL(l.url) gives, [host,    *)
(* pathname, keys], or undefined when it throws; method and the MIME types *)
(* are characters, status and the body texts are optional.  A counting map *)
(* (statuses, mime.req, mime.res) is a plain object: a function from its   *)
(* own keys to their values, a value being a number [t |-> "num", n] or a  *)
(* string [t |-> "str", s].                                                *)
(* createdAt is a wall-clock reading and is left out.                      *)
(***************************************************************************)
k_constructor == <<"c","o","n","s","t","r","u","c","t","o","r">>  \* constructor

jsNumber(n) == [t |-> "num", n |-> n]
jsString(s) == [t |-> "str", s |-> s]

\* map[key] of a plain object: an own property, or what Object.prototype has
\* under that name
getProperty(map, key) ==
  IF key = k___proto__ THEN Some(jsString("[object Object]"))
  ELSE IF key \in DOMAIN map THEN Some(map[key])
  ELSE IF key = k_constructor THEN Some(jsString("function Object() { [native code] }"))
  ELSE None

\* (map[key] ?? 0) + 1
plusOne(v) ==
  IF v.t = "num" THEN jsNumber(v.n + 1) ELSE jsString(v.s \o "1")

\* map[key] = value of a plain object: the __proto__ setter takes no string
setProperty(map, key, value) ==
  IF key = k___proto__ THEN map
  ELSE [k \in DOMAIN map \cup {key} |-> IF k = key THEN value ELSE map[k]]

bump(map, k) ==
  LET cur == getProperty(map, k)
  IN setProperty(map, k, plusOne(IF IsSome(cur) THEN Val(cur) ELSE jsNumber(0)))

\* s.split(";")[0]
beforeSemicolon(s) ==
  IF \E i \in 1..Len(s) : s[i] = ";"
  THEN SubSeq(s, 1, (CHOOSE i \in 1..Len(s) :
                       s[i] = ";" /\ \A j \in 1..(i - 1) : s[j] # ";") - 1)
  ELSE s

pickMime(v) ==
  trim(beforeSemicolon(toLowerCase(IF IsSome(v) THEN Val(v) ELSE <<>>)))

upperChar(c) ==
  IF \E i \in 1..Len(LOWER) : LOWER[i] = c
  THEN UPPER[CHOOSE i \in 1..Len(LOWER) : LOWER[i] = c]
  ELSE c

toUpperCase(s) == [i \in 1..Len(s) |-> upperChar(s[i])]

\* the query keys the logs carry, in the order sort() puts them
k_cursor == <<"c","u","r","s","o","r">>  \* cursor
KeyOrder == <<k_cursor, k_page, k_q, k_token>>

\* Array.from(set).sort()
sorted(keys) == SelectSeq(KeyOrder, LAMBDA k : k \in keys)

\* queryKeys(u)
queryKeys(u) == sorted(u.keys)

\* s.length > max ? s.slice(0, max) + mark : s, where the mark is a line
\* feed, one ellipsis character (written ~ here) and "(truncated)"
MAX_SAMPLE_BODY == 2048

trimText(s) ==
  IF s = "" THEN s
  ELSE IF Len(s) > MAX_SAMPLE_BODY
       THEN SubSeq(s, 1, MAX_SAMPLE_BODY) \o "\n~(truncated)"
       ELSE s

\* the body text of a sample: text: trimText(body.text ?? ""), of a body
sampleText(text) == IF IsSome(text) THEN Some(trimText(Val(text))) ELSE None

\* the position of the summary with this key in the Map, 0 if it has none
indexOfKey(byKey, key) ==
  IF \E i \in 1..Len(byKey) : byKey[i].key = key
  THEN CHOOSE i \in 1..Len(byKey) : byKey[i].key = key
  ELSE 0

\* one turn of the loop over the logs
addLog(byKey, l) ==
  IF ~IsSome(l.url) THEN byKey
  ELSE
    LET u == Val(l.url)
        host == u.host
        path == normalizePath(u.pathname)
        method == toUpperCase(IF l.method = <<>> THEN <<"G","E","T">> ELSE l.method)
        key == method \o <<" ">> \o host \o <<" ">> \o path
        status == IF IsSome(l.status) THEN Val(l.status) ELSE <<"0">>
        reqMime == pickMime(l.reqMime)
        resMime == pickMime(l.resMime)
        at == indexOfKey(byKey, key)
        fresh == [key |-> key, method |-> method, host |-> host, path |-> path,
                  count |-> 0, statuses |-> <<>>, queryKeys |-> <<>>,
                  mime |-> [req |-> <<>>, res |-> <<>>],
                  sample |-> [url |-> u, ts |-> l.ts, status |-> l.status,
                              reqText |-> sampleText(l.reqText),
                              resText |-> sampleText(l.resText)]]
        s == IF at = 0 THEN fresh ELSE byKey[at]
        t == [s EXCEPT !.count = @ + 1,
                       !.statuses = bump(@, status),
                       !.mime = [req |-> bump(@.req, reqMime),
                                 res |-> bump(@.res, resMime)],
                       !.queryKeys = sorted({@[i] : i \in 1..Len(@)} \cup
                                            {queryKeys(u)[i] : i \in 1..Len(queryKeys(u))})]
    IN IF at = 0 THEN Append(byKey, t) ELSE [byKey EXCEPT ![at] = t]

RECURSIVE summarize(_, _)
summarize(byKey, list) ==
  IF list = <<>> THEN byKey
  ELSE summarize(addLog(byKey, Head(list)), Tail(list))

\* a sort that is not stable: of the endpoints with the greatest count the
\* last one comes first
RECURSIVE sortByCount_unstable(_)
sortByCount_unstable(endpoints) ==
  IF endpoints = <<>> THEN <<>>
  ELSE LET top == CHOOSE i \in 1..Len(endpoints) :
                    /\ \A j \in 1..Len(endpoints) : endpoints[j].count <= endpoints[i].count
                    /\ \A j \in (i + 1)..Len(endpoints) : endpoints[j].count < endpoints[i].count
       IN <<endpoints[top]>> \o
          sortByCount_unstable(SubSeq(endpoints, 1, top - 1) \o
                               SubSeq(endpoints, top + 1, Len(endpoints)))

\* sort((a, b) => b.count - a.count), which is stable
RECURSIVE sortByCount(_)
sortByCount(endpoints) ==
  IF endpoints = <<>> THEN <<>>
  ELSE LET top == CHOOSE i \in 1..Len(endpoints) :
                    /\ \A j \in 1..Len(endpoints) : endpoints[j].count <= endpoints[i].count
                    /\ \A j \in 1..(i - 1) : endpoints[j].count < endpoints[i].count
       IN <<endpoints[top]>> \o
          sortByCount(SubSeq(endpoints, 1, top - 1) \o
                      SubSeq(endpoints, top + 1, Len(endpoints)))

buildRouteReport(routeKey, sessionId, list) ==
  [routeKey |-> routeKey, sessionId |-> sessionId, totalLogs |-> Len(list),
   endpoints |-> sortByCount(summarize(<<>>, list))]

h_api == <<"a","p","i",".","t","e","s","t">>  \* api.test
p_users42 == <<"/">> \o seg_users \o <<"/">> \o seg_42
p_users12a == <<"/">> \o seg_users \o <<"/">> \o seg_12a
p_users7 == <<"/">> \o seg_users \o <<"/","7">>

\* the logs a session file holds: requests for two users of one endpoint and
\* for another path, a record whose url does not parse, records without
\* status (a failed exchange), and bodies of the content types that clients
\* and servers sent
MaxReportLogs == 3

\* a body text one character longer than MAX_SAMPLE_BODY
LongText ==
  LET a == "xxxxxxxx"
      b == a \o a \o a \o a \o a \o a \o a \o a
      c == b \o b \o b \o b \o b \o b \o b \o b
  IN c \o c \o c \o c \o "x"

ReportLogs ==
  { [url |-> Some([host |-> h_api, pathname |-> p_users42, keys |-> {k_page}]),
     method |-> <<"G","E","T">>, status |-> Some(<<"2","0","0">>),
     reqMime |-> Some(m_none), resMime |-> Some(m_JsonUtf8),
     reqText |-> Some(""), resText |-> Some("{}")],
    [url |-> Some([host |-> h_api, pathname |-> p_users7, keys |-> {k_q, k_cursor}]),
     method |-> <<"g","e","t">>, status |-> Some(<<"4","0","4">>),
     reqMime |-> Some(m_none), resMime |-> Some(MIME_JSON),
     reqText |-> Some(""), resText |-> Some("{}")],
    [url |-> Some([host |-> h_api, pathname |-> p_users7, keys |-> {}]),
     method |-> <<>>, status |-> None,
     reqMime |-> None, resMime |-> None,
     reqText |-> None, resText |-> None],
    [url |-> Some([host |-> h_api, pathname |-> p_users12a, keys |-> {}]),
     method |-> <<"P","O","S","T">>, status |-> Some(<<"2","0","0">>),
     reqMime |-> Some(MIME_JSON), resMime |-> Some(m_textPlain),
     reqText |-> Some(LongText), resText |-> Some("ok")],
    [url |-> Some([host |-> h_api, pathname |-> p_users42, keys |-> {}]),
     method |-> <<"G","E","T">>, status |-> Some(<<"2","0","0">>),
     reqMime |-> Some(m_none), resMime |-> Some(k_constructor),
     reqText |-> Some(""), resText |-> Some("ok")],
    [url |-> Some([host |-> h_api, pathname |-> p_users42, keys |-> {}]),
     method |-> <<"G","E","T">>, status |-> Some(<<"2","0","0">>),
     reqMime |-> Some(k___proto__), resMime |-> Some(m_textPlain),
     reqText |-> Some(""), resText |-> Some("ok")],
    [url |-> Some([host |-> h_api, pathname |-> p_users42, keys |-> {}]),
     method |-> <<"D","E","L","E","T","E">>, status |-> Some(<<"2","0","4">>),
     reqMime |-> None, resMime |-> None,
     reqText |-> None, resText |-> None],
    [url |-> None,
     method |-> <<"G","E","T">>, status |-> Some(<<"2","0","0">>),
     reqMime |-> Some(m_none), resMime |-> Some(m_textPlain),
     reqText |-> Some(""), resText |-> Some("ok")] }

\* the logs with their time stamps: the i-th is emitted at since + i
stamped(q, since) ==
  [i \in 1..Len(q) |-> [ts |-> since + i] @@ q[i]]

\* the lists of up to MaxReportLogs logs
LogLists ==
  { stamped(q, 0) : q \in SeqsUpTo(ReportLogs, MaxReportLogs) }

ReportInit ==
  /\ \E list \in LogLists : call = [fn |-> "buildRouteReport", logs |-> list]
  /\ ret = None

\* buildRouteReport({ routeKey, sessionId, logs })
BuildRouteReport ==
  /\ call.fn = "buildRouteReport"
  /\ ret = None
  /\ ret' = Some(buildRouteReport("/", "s1", call.logs))
  /\ UNCHANGED <<call, capVars, stripVars, sanVars, hubVars, proxyVars>>

ReportNext == BuildRouteReport

(***************************************************************************)
(* catalog.ts: mergeReports, mergeCountMap                                 *)
(***************************************************************************)
jsNaN == [t |-> "nan"]

\* Number(v) of an entry of a counting map
Number(v) == IF v.t = "str" THEN jsNaN ELSE v

\* what a value reads as in a string
asString(v) ==
  IF v.t = "str" THEN v.s ELSE IF v.t = "nan" THEN "NaN" ELSE ToString(v.n)

\* a + b
plus(a, b) ==
  IF a.t = "str" \/ b.t = "str" THEN jsString(asString(a) \o asString(b))
  ELSE IF a.t = "nan" \/ b.t = "nan" THEN jsNaN
  ELSE jsNumber(a.n + b.n)

\* the loop of mergeCountMap over the entries of b
RECURSIVE mergeEntries(_, _, _)
mergeEntries(out, b, keys) ==
  IF keys = {} THEN out
  ELSE LET k == CHOOSE x \in keys : TRUE
           cur == getProperty(out, k)
       IN mergeEntries(setProperty(out, k, plus(IF IsSome(cur) THEN Val(cur)
                                                 ELSE jsNumber(0),
                                                 Number(b[k]))),
                       b, keys \ {k})

mergeCountMap(a, b) == mergeEntries(a, b, DOMAIN b)

\* one turn of the inner loop of mergeReports
mergeEndpoint(map, e) ==
  LET at == indexOfKey(map, e.key)
  IN IF at = 0 THEN Append(map, e)
     ELSE [map EXCEPT ![at] =
             [@ EXCEPT !.count = @ + e.count,
                       !.statuses = mergeCountMap(@, e.statuses),
                       !.mime = [req |-> mergeCountMap(@.req, e.mime.req),
                                 res |-> mergeCountMap(@.res, e.mime.res)],
                       !.queryKeys = sorted({@[i] : i \in 1..Len(@)} \cup
                                            {e.queryKeys[i] : i \in 1..Len(e.queryKeys)})]]

RECURSIVE mergeEndpoints(_, _)
mergeEndpoints(map, endpoints) ==
  IF endpoints = <<>> THEN map
  ELSE mergeEndpoints(mergeEndpoint(map, Head(endpoints)), Tail(endpoints))

RECURSIVE mergeAll(_, _)
mergeAll(acc, reports) ==
  IF reports = <<>> THEN acc
  ELSE mergeAll([totalLogs |-> acc.totalLogs + Head(reports).totalLogs,
                 map |-> mergeEndpoints(acc.map, Head(reports).endpoints)],
                Tail(reports))

mergeReports(routeKey, reports) ==
  LET all == mergeAll([totalLogs |-> 0, map |-> <<>>], reports)
  IN [routeKey |-> routeKey, sessions |-> Len(reports),
      totalLogs |-> all.totalLogs, endpoints |-> sortByCount(all.map)]

\* the sessions of one route, of up to MaxGroupLogs logs each; the logs of a
\* later session are later
MaxGroup == 2
MaxGroupLogs == 2

sessionId(i) == <<"session", i>>

\* buildRouteCatalog with no report cached: the reports of the sessions
Groups ==
  { [i \in 1..Len(g) |->
       buildRouteReport("/", sessionId(i), stamped(g[i], (i - 1) * MaxGroupLogs))] :
      g \in SeqsUpTo(SeqsUpTo(ReportLogs, MaxGroupLogs), MaxGroup) }

MergeInit ==
  /\ \E reports \in Groups : call = [fn |-> "mergeReports", reports |-> reports]
  /\ ret = None

\* mergeReports(routeKey, reports)
MergeReports ==
  /\ call.fn = "mergeReports"
  /\ ret = None
  /\ ret' = Some(mergeReports("/", call.reports))
  /\ UNCHANGED <<call, capVars, stripVars, sanVars, hubVars, proxyVars>>

MergeNext == MergeReports

(***************************************************************************)
(* Bounded body capture: proxy.ts (forward proxy) and mitm.ts              *)
(*                                                                         *)
(* A body travels as characters.  textString is what a body text is on the *)
(* wire and in a record; readText is the body text that a captured string  *)
(* is.                                                                     *)
(***************************************************************************)
\* BODY_LIMIT is 64 * 1024 in proxy.ts and mitm.ts; the model runs the same
\* code with a limit that the bodies below reach.
BODY_LIMIT == 12

RECURSIVE strOf(_)
strOf(chars) == IF chars = <<>> THEN "" ELSE chars[1] \o strOf(Tail(chars))

RECURSIVE joinStr(_, _)
joinStr(parts, sep) ==
  IF parts = <<>> THEN ""
  ELSE IF Len(parts) = 1 THEN parts[1]
  ELSE parts[1] \o sep \o joinStr(Tail(parts), sep)

RECURSIVE spaces(_)
spaces(n) == IF n = 0 THEN "" ELSE " " \o spaces(n - 1)

\* JSON.stringify(v, null, indent) as characters: with an indent, every
\* member and item goes on a line of its own and ":" is followed by a space
RECURSIVE jsonText(_, _, _)
jsonText(v, indent, level) ==
  LET nl(l) == IF indent = 0 THEN "" ELSE "\n" \o spaces(indent * l)
      colon == IF indent = 0 THEN ":" ELSE ": "
  IN CASE v.t = "str" -> "\"" \o v.s \o "\""
       [] v.t = "num" -> ToString(v.n)
       [] v.t = "null" -> "null"
       [] v.t = "arr" ->
            IF v.items = <<>> THEN "[]"
            ELSE "[" \o nl(level + 1)
                 \o joinStr([i \in 1..Len(v.items) |->
                               jsonText(v.items[i], indent, level + 1)],
                            "," \o nl(level + 1))
                 \o nl(level) \o "]"
       [] v.t = "obj" ->
            IF v.members = <<>> THEN "{}"
            ELSE "{" \o nl(level + 1)
                 \o joinStr([i \in 1..Len(v.members) |->
                               "\"" \o strOf(v.members[i][1]) \o "\"" \o colon
                               \o jsonText(v.members[i][2], indent, level + 1)],
                            "," \o nl(level + 1))
                 \o nl(level) \o "}"

\* URLSearchParams.prototype.toString: the application/x-www-form-urlencoded
\* serialiser writes letters, digits and * - . _ as they are, a space as "+"
\* and every other character as %XX
formEncode(c) ==
  CASE c = " " -> "+"
    [] c = "{" -> "%7B"
    [] c = "}" -> "%7D"
    [] c = "[" -> "%5B"
    [] c = "]" -> "%5D"
    [] c = "\"" -> "%22"
    [] c = ":" -> "%3A"
    [] c = "," -> "%2C"
    [] c = "=" -> "%3D"
    [] c = "&" -> "%26"
    [] OTHER -> c

formEncodeString(str) ==
  joinStr([i \in 1..Len(str) |-> formEncode(SubSeq(str, i, i))], "")

formText(pairs) ==
  joinStr([i \in 1..Len(pairs) |->
             joinStr([j \in 1..Len(pairs[i][1]) |->
                        formEncodeString(pairs[i][1][j])], "")
             \o "=" \o formEncodeString(pairs[i][2])],
          "&")

\* the characters of a body text
textString(text) ==
  CASE text.k \in {"raw", "badjson"} -> text.s
    [] text.k = "json" -> jsonText(text.v, text.indent, 0)
    [] text.k = "form" -> formText(text.pairs)

\* the body text that the captured characters are, of a body sent as `sent`:
\* all of it, or a cut-off piece, which for JSON no longer parses
readText(chars, sent) ==
  IF chars = textString(sent) THEN sent
  ELSE IF sent.k = "json" /\ chars # "" THEN BadJsonText(chars)
  ELSE RawText(chars)

\* Buffer.concat(chunks)
concat(chunks) == joinStr(chunks, "")

\* chunk.subarray(0, n)
subarray(buf, n) == SubSeq(buf, 1, IF n < Len(buf) THEN n ELSE Len(buf))

\* proxy.ts captureLimitedText
captureLimitedText(chunks) == IF chunks = <<>> THEN "" ELSE concat(chunks)

\* mitm.ts captureLimited
captureLimited(buf) == subarray(concat(buf), BODY_LIMIT)

\* mitm.ts toRecord: the names lowercased, a later header of a name replacing
\* an earlier one
toRecord(h) ==
  [name \in assignable({ toLowerCase(k) : k \in DOMAIN h }) |->
     join(h[CHOOSE k \in DOMAIN h : toLowerCase(k) = name])]

\* the record mitm.ts assembles in onResponseEnd
mitmLog(id, req, isTls, res) ==
  LET host == IF k_host \in DOMAIN req.headers
              THEN join(req.headers[k_host]) ELSE ""
      protocol == IF isTls THEN "https" ELSE "http"
  IN [id |-> id,
      method |-> IF req.method = "" THEN "GET" ELSE req.method,
      url |-> [origin |-> protocol \o "://" \o host,
               pathname |-> req.url.pathname, search |-> req.url.search],
      host |-> host,
      path |-> req.url.pathname,
      status |-> Some(res.statusCode),
      request |-> [headers |-> toRecord(req.headers),
                   query |-> Some(fromEntries(req.url.search)),
                   body |-> Some([mime |-> req.contentType, text |-> req.body])],
      response |-> Some([headers |-> Some(toRecord(res.headers)),
                         body |-> Some([mime |-> res.contentType,
                                        text |-> res.body])])]

\* the bodies a client sends: a POST of JSON that fits the limit exactly, and
\* a WebDAV PROPFIND with text longer than the limit
CaptureBodies ==
  { [method |-> "POST", mime |-> MIME_JSON,
     text |-> JSON_stringify(JObj(<< <<k_name, JStr("y")>> >>), 0)],
    [method |-> "PROPFIND", mime |-> m_textPlain,
     text |-> RawText("0123456789abcdefgh")] }

\* the sizes of the chunks the body arrives in
ChunkSizes == {1, 5, 12}

idleCapture ==
  [path |-> "none", sent |-> None, rest |-> "", chunks |-> <<>>,
   reqBodySize |-> 0, done |-> TRUE]

CaptureInit ==
  \E path \in {"forward", "mitm"} : \E body \in CaptureBodies :
    cap = [path |-> path, sent |-> Some(body), rest |-> textString(body.text),
           chunks |-> <<>>, reqBodySize |-> 0, done |-> FALSE]

\* the request of the exchange under capture, its body as captured
capturedRequest(text) ==
  [method |-> Val(cap.sent).method,
   url |-> [form |-> "origin", pathname |-> "/upload", search |-> <<>>],
   headers |-> (k_host :> <<"example.com">>) @@ (k_connection :> <<"keep-alive">>),
   contentType |-> Val(cap.sent).mime,
   body |-> readText(text, Val(cap.sent).text)]

\* proxy.ts clientReq.on("data")
ForwardData(n) ==
  /\ cap.path = "forward" /\ ~cap.done
  /\ n <= Len(cap.rest)
  /\ LET chunk == SubSeq(cap.rest, 1, n)
         remain == BODY_LIMIT - cap.reqBodySize
     IN cap' = [cap EXCEPT
                  !.chunks = IF cap.reqBodySize < BODY_LIMIT
                             THEN Append(@, subarray(chunk, remain)) ELSE @,
                  !.reqBodySize = @ + Len(chunk),
                  !.rest = SubSeq(@, n + 1, Len(@))]
  /\ UNCHANGED <<sanVars, hubVars, proxyVars, stripVars, pureVars>>

\* proxy.ts upstreamRes.on("end"), once the request body is through
ForwardEnd ==
  /\ cap.path = "forward" /\ ~cap.done /\ cap.rest = ""
  /\ ~crashed
  /\ cap' = [cap EXCEPT !.done = TRUE]
  /\ \E upstreamRes \in UpstreamResponses :
       LET req == capturedRequest(captureLimitedText(cap.chunks))
       IN pushLog(successLog(<<"capture", 1>>, req, Val(safeUrlFromRequest(req)),
                             upstreamRes))
  /\ UNCHANGED <<sanVars, proxyVars, stripVars, pureVars>>

\* mitm.ts req.on("data")
MitmData(n) ==
  /\ cap.path = "mitm" /\ ~cap.done
  /\ n <= Len(cap.rest)
  /\ LET chunk == SubSeq(cap.rest, 1, n)
     IN cap' = [cap EXCEPT
                  !.chunks = IF Len(concat(@)) < BODY_LIMIT
                             THEN Append(@, chunk) ELSE @,
                  !.rest = SubSeq(@, n + 1, Len(@))]
  /\ UNCHANGED <<sanVars, hubVars, proxyVars, stripVars, pureVars>>

\* mitm.ts ctx.onResponseEnd
MitmEnd ==
  /\ cap.path = "mitm" /\ ~cap.done /\ cap.rest = ""
  /\ ~crashed
  /\ cap' = [cap EXCEPT !.done = TRUE]
  /\ \E res \in UpstreamResponses : \E isTls \in BOOLEAN :
       pushLog(mitmLog(<<"capture", 1>>,
                       capturedRequest(captureLimited(cap.chunks)), isTls, res))
  /\ UNCHANGED <<sanVars, proxyVars, stripVars, pureVars>>

CaptureNext ==
  \/ \E n \in ChunkSizes : ForwardData(n)
  \/ ForwardEnd
  \/ \E n \in ChunkSizes : MitmData(n)
  \/ MitmEnd
  \/ Subscribe
  \/ StartCall
  \/ \E i \in 1..MaxCalls :
       \/ StartAfterInit(i)
       \/ StartMkdirDone(i)
       \/ StartWriteDone(i)
  \/ \E sid \in 1..MaxCalls : StreamFlush(sid)

(***************************************************************************)
(* index.ts: the report cache (report.json of a session)                   *)
(*                                                                         *)
(* The response of a handler that serves a report is                       *)
(* [sid, cached, report, file]: the session, whether the report came from  *)
(* report.json, the report, and the lines logs.ndjson had at that moment.  *)
(***************************************************************************)
\* the characters of a string
charsOf(s) == [i \in 1..Len(s) |-> SubSeq(s, i, i)]

\* new URL(l.url).host of a record's url
hostOf(url) ==
  LET origin == charsOf(url.origin)
      at == CHOOSE i \in 1..Len(origin) :
              /\ SubSeq(origin, i, i + 1) = <<"/", "/">>
              /\ \A j \in 1..(i - 1) : SubSeq(origin, j, j + 1) # <<"/", "/">>
  IN SubSeq(origin, at + 2, Len(origin))

\* a RequestLog as buildRouteReport reads it
reportLog(l, ts) ==
  [url |-> Some([host |-> hostOf(l.url), pathname |-> charsOf(l.url.pathname),
                 keys |-> { l.url.search[i][1] : i \in 1..Len(l.url.search) }]),
   ts |-> ts,
   method |-> charsOf(l.method),
   status |-> IF IsSome(l.status) THEN Some(charsOf(ToString(Val(l.status)))) ELSE None,
   reqMime |-> IF IsSome(l.request.body) THEN Some(Val(l.request.body).mime) ELSE None,
   resMime |-> IF IsSome(l.response) /\ IsSome(Val(l.response).body)
               THEN Some(Val(Val(l.response).body).mime) ELSE None,
   reqText |-> IF IsSome(l.request.body)
               THEN Some(textString(Val(l.request.body).text)) ELSE None,
   resText |-> IF IsSome(l.response) /\ IsSome(Val(l.response).body)
               THEN Some(textString(Val(Val(l.response).body).text)) ELSE None]

\* readLogs(id, 200000) of a session whose lines all parse, then
\* buildRouteReport
reportOfFile(sid, file) ==
  buildRouteReport("/", sid, [i \in 1..Len(file) |-> reportLog(file[i].line, i)])

\* writeReport(id, report)
writeReport(dirs, sid, report) ==
  IF IsSome(dirs[sid].meta)
  THEN [dirs EXCEPT ![sid].report = Some(report), ![sid].reportWrites = @ + 1]
  ELSE dirs

\* readReport(id), or the report built and cached when there is none
cachedOrBuilt(sid) ==
  IF IsSome(sessions[sid].report) THEN Val(sessions[sid].report)
  ELSE reportOfFile(sid, sessions[sid].file)

\* POST /api/sessions/:id/report and GET /api/sessions/:id/export?format=md
ServeReport(sid, route) ==
  /\ ~crashed
  /\ sid \in 1..Len(sessions)
  /\ IsSome(sessions[sid].meta)
  /\ sessions' = IF IsSome(sessions[sid].report) THEN sessions
                 ELSE writeReport(sessions, sid, cachedOrBuilt(sid))
  /\ ret' = Some([route |-> route, sid |-> sid,
                  cached |-> IsSome(sessions[sid].report),
                  report |-> cachedOrBuilt(sid), file |-> sessions[sid].file])
  /\ UNCHANGED <<logs, clients, sse, current, writeStream, metaWrites, tasks,
                 crashed, emitted, clearedAt>>
  /\ UNCHANGED <<call, capVars, stripVars, sanVars, proxyVars>>

\* the cache fill of buildRouteCatalog, over the sessions that are listed
RECURSIVE fillReports(_, _)
fillReports(dirs, sid) ==
  IF sid > Len(dirs) THEN dirs
  ELSE fillReports(IF IsSome(dirs[sid].meta) /\ ~IsSome(dirs[sid].report)
                   THEN writeReport(dirs, sid, reportOfFile(sid, dirs[sid].file))
                   ELSE dirs,
                   sid + 1)

\* GET /api/catalog/export
CatalogExport ==
  /\ ~crashed
  /\ \E sid \in 1..Len(sessions) : IsSome(sessions[sid].meta)
  /\ sessions' = fillReports(sessions, 1)
  /\ ret' = Some([route |-> "catalog",
                  report |-> mergeReports("/",
                    LET listed == SelectSeq([sid \in 1..Len(sessions) |-> sid],
                                            LAMBDA sid : IsSome(sessions[sid].meta))
                    IN [n \in 1..Len(listed) |-> cachedOrBuilt(listed[n])])])
  /\ UNCHANGED <<logs, clients, sse, current, writeStream, metaWrites, tasks,
                 crashed, emitted, clearedAt>>
  /\ UNCHANGED <<call, capVars, stripVars, sanVars, proxyVars>>

\* POST /api/sessions/stop after stop() returned the meta: it builds the
\* report of the session and writes it
StopReport(i) ==
  /\ ~crashed
  /\ i \in 1..Len(tasks)
  /\ tasks[i].op = "stop"
  /\ tasks[i].pc = "done"
  /\ LET sid == Val(tasks[i].stopMeta).id
     IN sessions' = writeReport(sessions, sid, reportOfFile(sid, sessions[sid].file))
  /\ tasks' = [tasks EXCEPT ![i].pc = "responded"]
  /\ UNCHANGED <<logs, clients, sse, current, writeStream, metaWrites,
                 crashed, emitted, clearedAt>>
  /\ UNCHANGED notHubVars

\* recording, stopping and asking for reports
CacheNext ==
  \/ Emit
  \/ StartCall
  \/ StopCall
  \/ CatalogExport
  \/ \E i \in 1..MaxCalls :
       \/ StartAfterInit(i)
       \/ StopWriteDone(i)
       \/ StopEndDone(i)
       \/ StartMkdirDone(i)
       \/ StartWriteDone(i)
       \/ StopReport(i)
  \/ \E sid \in 1..MaxCalls :
       \/ StreamFlush(sid)
       \/ \E route \in {"report", "md"} : ServeReport(sid, route)

SanIdle ==
  /\ sanA = None
  /\ sanB = None
  /\ outA = None
  /\ outB = None

ProxyInit ==
  /\ ex = [e \in 1..MaxExchanges |-> newExchange]
  /\ tun = [t \in 1..MaxTunnels |-> newTunnel]

SideIdle ==
  /\ cap = idleCapture
  /\ hdrIn = <<>>
  /\ hdrOut = None
  /\ PureIdle

vars == <<sanVars, hubVars, proxyVars, sideVars>>

Init == SanIdle /\ HubInit /\ ProxyInit /\ SideIdle
Next == FanoutNext
Spec == Init /\ [][Next]_vars

InitSession == Init
NextSession == SessionNext
SpecSession == InitSession /\ [][NextSession]_vars

InitProxy == Init
NextProxy == ProxyNext
SpecProxy == InitProxy /\ [][NextProxy]_vars

\* the "error" event of a request that was destroyed with an error pending:
\* destroy() schedules it for the next tick
destroyedEmitsError(e) ==
  \E err \in {TimeoutError, HangUpError} :
    ex[e].pendingErr = Some(err) /\ UpstreamReqError(e, err)

\* the plain HTTP exchanges, with the event loop running every scheduled tick
InitAbort == Init
NextAbort == ProxyNext
SpecAbort ==
  InitAbort /\ [][NextAbort]_vars
    /\ \A e \in 1..MaxExchanges : WF_vars(destroyedEmitsError(e))

InitQueue == Init
NextQueue == QueueNext
SpecQueue == InitQueue /\ [][NextQueue]_vars

InitAppend == Init
NextAppend == AppendNext
SpecAppend == InitAppend /\ [][NextAppend]_vars

InitPublish == Init
NextPublish == PublishNext
SpecPublish == InitPublish /\ [][NextPublish]_vars

InitTunnel == Init
NextTunnel == TunnelNext
SpecTunnel == InitTunnel /\ [][NextTunnel]_vars

InitCapture ==
  SanIdle /\ HubInit /\ ProxyInit /\ CaptureInit /\ hdrIn = <<>> /\ hdrOut = None
    /\ PureIdle
NextCapture == CaptureNext
SpecCapture == InitCapture /\ [][NextCapture]_vars

InitStrip ==
  SanIdle /\ HubInit /\ ProxyInit /\ cap = idleCapture /\ StripInit /\ PureIdle
NextStrip == StripNext
SpecStrip == InitStrip /\ [][NextStrip]_vars

InitRead ==
  SanIdle /\ HubInit /\ ProxyInit /\ cap = idleCapture /\ hdrIn = <<>>
    /\ hdrOut = None /\ ReadInit
NextRead == ReadNext
SpecRead == InitRead /\ [][NextRead]_vars

InitNormalize ==
  SanIdle /\ HubInit /\ ProxyInit /\ cap = idleCapture /\ hdrIn = <<>>
    /\ hdrOut = None /\ NormalizeInit
NextNormalize == NormalizeNext
SpecNormalize == InitNormalize /\ [][NextNormalize]_vars

InitReport ==
  SanIdle /\ HubInit /\ ProxyInit /\ cap = idleCapture /\ hdrIn = <<>>
    /\ hdrOut = None /\ ReportInit
NextReport == ReportNext
SpecReport == InitReport /\ [][NextReport]_vars

InitMerge ==
  SanIdle /\ HubInit /\ ProxyInit /\ cap = idleCapture /\ hdrIn = <<>>
    /\ hdrOut = None /\ MergeInit
NextMerge == MergeNext
SpecMerge == InitMerge /\ [][NextMerge]_vars

\* building a report and merging the reports of a group
InitOrder == InitReport \/ InitMerge
NextOrder == BuildRouteReport \/ MergeReports
SpecOrder == InitOrder /\ [][NextOrder]_vars

InitCache == Init
NextCache == CacheNext
SpecCache == InitCache /\ [][NextCache]_vars

InitClear == Init
NextClear == ClearNext
SpecClear == InitClear /\ [][NextClear]_vars

InitSanitize == SanInit /\ HubInit /\ ProxyInit /\ SideIdle
NextSanitize == SanNext
SpecSanitize == InitSanitize /\ [][NextSanitize]_vars

(***************************************************************************)
(* Properties                                                              *)
(***************************************************************************)
\* the positions in the emission history of the records with this id
recordsOf(id) == { n \in 1..Len(emitted) : emitted[n].id = id }

\* the transition is the "error" handler of upstreamReq or of upstreamRes
\* running for exchange e
errorHandled(e) ==
  \/ ~ex[e].reqErrored /\ ex'[e].reqErrored
  \/ ex[e].res = "streaming" /\ ex'[e].res = "errored"

\* C1: for every plain-HTTP exchange, whatever terminal events occur and in
\* whatever order, pushLog is called at most once; only the first terminal
\* event emits a record.
C1_AtMostOneRecord ==
  \A e \in 1..MaxExchanges : Cardinality(recordsOf(<<"http", e>>)) <= 1

\* C2: once an upstream failure (transport error, timeout, or an error of
\* the upstream response stream after its head arrived) was handled before
\* the success end of an exchange, a record of that exchange with status 502
\* and an error text body has been emitted.
C2_UpstreamFailureLogged ==
  \A e \in 1..MaxExchanges :
    ex[e].upstreamFailed =>
      \E n \in recordsOf(<<"http", e>>) :
        /\ emitted[n].status = Some(502)
        /\ IsSome(emitted[n].response)
        /\ IsSome(Val(emitted[n].response).body)
        /\ Val(Val(emitted[n].response).body).mime = m_textPlain

\* C3 as stated: whenever an upstream error is handled, the client gets a
\* 502 exactly when no response headers were sent before, and the client
\* connection is torn down when they were; no exchange has two status lines.
C3_ErrorRespondsOrTearsDown ==
  [][\A e \in 1..MaxExchanges :
       errorHandled(e) =>
         /\ IF ex[e].headersSent
            THEN /\ ex'[e].destroyed
                 /\ ex'[e].clientWrites = ex[e].clientWrites
            ELSE ex'[e].clientWrites =
                   Append(ex[e].clientWrites, clientWrite(502, "safeFail"))
         /\ Len(ex'[e].clientWrites) <= 1]_vars

\* C3 amended: an upstream error handled as the first terminal event of an
\* exchange sends 502 exactly when no response headers were sent before and
\* otherwise tears the client connection down without writing; an upstream
\* error handled after the exchange finished changes nothing on the client
\* side; no exchange ever has two status lines.
C3_FirstErrorRespondsOrTearsDown ==
  [][\A e \in 1..MaxExchanges :
       errorHandled(e) =>
         /\ IF ex[e].done
            THEN /\ ex'[e].clientWrites = ex[e].clientWrites
                 /\ ex'[e].destroyed = ex[e].destroyed
                 /\ ex'[e].headersSent = ex[e].headersSent
            ELSE IF ex[e].headersSent
                 THEN /\ ex'[e].destroyed
                      /\ ex'[e].clientWrites = ex[e].clientWrites
                 ELSE /\ ex'[e].clientWrites =
                           Append(ex[e].clientWrites, clientWrite(502, "safeFail"))
                      /\ ~ex'[e].destroyed
         /\ Len(ex'[e].clientWrites) <= 1]_vars

\* one exchange was answered 502 by the failure responder, another was torn
\* down after the upstream's status line had gone out
C3_Witness ==
  \E a, b \in 1..MaxExchanges :
    /\ ex[a].reqErrored
    /\ ex[a].clientWrites = <<clientWrite(502, "safeFail")>>
    /\ ex[b].res = "errored"
    /\ ex[b].destroyed
    /\ ex[b].clientWrites = <<clientWrite(200, "upstream")>>

\* the https://<host>:<port> of a CONNECT request, the port defaulting to 443
connectOrigin(req) ==
  "https://" \o req.url.host \o ":" \o
    (IF req.url.port = None THEN "443" ELSE ToString(Val(req.url.port)))

\* the tunnel record is a CONNECT record for the request's target
isConnectRecord(r, req, status) ==
  /\ r.method = "CONNECT"
  /\ r.url.origin = connectOrigin(req)
  /\ r.url.pathname = ""
  /\ r.status = Some(status)

\* C4 as stated: over the whole life of a tunnel exactly one record is
\* emitted, never zero and never two.
C4_ExactlyOneRecord ==
  \A t \in 1..MaxTunnels :
    (tun[t].clientClosed /\ tun[t].serverClosed) =>
      Cardinality(recordsOf(<<"connect", t>>)) = 1

\* C4 amended: a tunnel emits at most one record, a CONNECT record for
\* https://<host>:<port>; it has emitted exactly one, with status 200, once
\* the upstream connection was established, and exactly one, with status
\* 502, once a socket error on either side came before that; later errors
\* and closes add nothing, and a tunnel whose client goes away before the
\* connect resolves emits none.
C4_OneRecordOnceResolved ==
  \A t \in 1..MaxTunnels :
    LET mine == recordsOf(<<"connect", t>>)
    IN /\ Cardinality(mine) <= 1
       /\ tun[t].phase = "established" =>
            /\ Cardinality(mine) = 1
            /\ \A n \in mine : isConnectRecord(emitted[n], Val(tun[t].req), 200)
       /\ tun[t].failedEarly =>
            /\ Cardinality(mine) = 1
            /\ \A n \in mine : isConnectRecord(emitted[n], Val(tun[t].req), 502)
       /\ (tun[t].phase # "established" /\ ~tun[t].failedEarly) => mine = {}

\* one tunnel was established and later hit a socket error, another failed
\* to connect, and both are over
C4_Witness ==
  \E a, b \in 1..MaxTunnels :
    /\ tun[a].phase = "established"
    /\ tun[a].serverClosed /\ tun[a].clientClosed
    /\ Len(tun[a].clientWrites) = 2
    /\ tun[b].failedEarly
    /\ tun[b].serverClosed /\ tun[b].clientClosed
    /\ Len(emitted) = 2

\* the pushes since the last clear
sinceClear == Len(emitted) - clearedAt

\* C5: after any pushes and clears the ring holds min(k, MAX_LOGS) records,
\* k the number of pushes since the last clear; they are the most recent
\* ones, newest first, so the oldest are the ones dropped.
C5_RingNewestFirst ==
  /\ Len(logs) = IF sinceClear < MAX_LOGS THEN sinceClear ELSE MAX_LOGS
  /\ \A i \in 1..Len(logs) : logs[i] = sanitizeLog(emitted[Len(emitted) - i + 1])

\* the ring overflowed: more pushes than its capacity since the last clear
C5_Witness ==
  /\ sinceClear > MAX_LOGS
  /\ Len(logs) = MAX_LOGS
  /\ logs[1].id = <<"emit", Len(emitted)>>

\* what a subscriber registered after `from` pushes and live until `to`
\* pushes must have been sent
expectedEvents(id, from, to) ==
  <<helloEvent(id)>> \o
    [i \in 1..(to - from) |-> logEvent(sanitizeLog(emitted[from + i]))]

\* C6: a subscriber is sent one hello event at registration and then one log
\* event for every push between its registration and its close, in emission
\* order, none for earlier pushes; after its close it is out of the
\* subscriber set and is sent nothing more.
C6_SubscriberStream ==
  \A id \in 1..Len(sse) :
    LET to == IF sse[id].closedAt = None THEN Len(emitted)
              ELSE Val(sse[id].closedAt)
    IN /\ sse[id].written = expectedEvents(id, sse[id].subAt, to)
       /\ (id \in clients) = (sse[id].closedAt = None)

\* a subscriber that missed a push before it registered, got one, closed,
\* and missed one after
C6_Witness ==
  \E id \in 1..Len(sse) :
    /\ sse[id].subAt > 0
    /\ IsSome(sse[id].closedAt)
    /\ Val(sse[id].closedAt) > sse[id].subAt
    /\ Len(emitted) > Val(sse[id].closedAt)

\* the capacity of a subscriber's outbound queue (256 is suggested), scaled
QueueBound == 2

\* C7: the data pending for a subscriber never exceeds the bound of its
\* outbound queue, a push to a full queue being dropped for that subscriber.
C7_PendingBounded ==
  \A id \in clients : sse[id].pending <= QueueBound

\* C8: a failure of the session append never affects publication: no disk
\* error of the session log stops the process that publishes.
C8_AppendFailureIsolated ==
  ~crashed

\* what sanitizeLog returns for the emitted records
sanitizedEmitted ==
  { sanitizeLog(emitted[n]) : n \in 1..Len(emitted) }

\* C9: every record in the ring, in an SSE log payload, or in a line of
\* logs.ndjson (on disk or on its way there) is the output of sanitizeLog
\* for an emitted record.
C9_OnlySanitizedPublished ==
  LET safe == sanitizedEmitted
  IN /\ \A i \in 1..Len(logs) : logs[i] \in safe
     /\ \A id \in 1..Len(sse) :
          \A j \in 2..Len(sse[id].written) : sse[id].written[j].data \in safe
     /\ \A sid \in 1..Len(sessions) :
          /\ \A j \in 1..Len(sessions[sid].file) : sessions[sid].file[j].line \in safe
          /\ \A j \in 1..Len(sessions[sid].buf) : sessions[sid].buf[j].line \in safe

\* a record with sensitive values is in the ring, was sent to a subscriber
\* and is on disk
C9_Witness ==
  /\ logs # <<>>
  /\ emitted[Len(emitted)] # sanitizeLog(emitted[Len(emitted)])
  /\ \E id \in 1..Len(sse) : Len(sse[id].written) > 1
  /\ \E sid \in 1..Len(sessions) : sessions[sid].file # <<>>

\* the lowercased name is one of the sensitive header names
isSensitiveHeaderName(name) ==
  \E s \in SENSITIVE_HEADERS :
    /\ Len(s) = Len(name)
    /\ \A i \in 1..Len(s) : lowerChar(name[i]) = s[i]

\* after is before with the values of the sensitive names redacted
headersRedacted(before, after) ==
  /\ DOMAIN after = DOMAIN before
  /\ \A name \in DOMAIN before :
       after[name] = IF isSensitiveHeaderName(name) THEN DEFAULT_MASK
                     ELSE before[name]

\* C11: after sanitizeLog every request and response header whose lowercased
\* name is in the sensitive set carries the mask, every other header keeps
\* its value, and the header names, as spelled, are the same.
C11_SensitiveHeadersRedacted ==
  IsSome(outA) =>
    /\ headersRedacted(sanA.request.headers, Val(outA).request.headers)
    /\ headersRedacted(Val(Val(sanA.response).headers),
                       Val(Val(Val(outA).response).headers))

\* a record whose Authorization and Set-Cookie were redacted and whose
\* X-Trace was kept
C11_Witness ==
  /\ IsSome(outA)
  /\ DOMAIN sanA.request.headers = {k_Authorization, k_XTrace}
  /\ sanA.request.headers[k_Authorization] = "s3cr3t-A"
  /\ Val(outA).request.headers[k_Authorization] = DEFAULT_MASK
  /\ Val(outA).request.headers[k_XTrace] = "t1"
  /\ k_SetCookie \in DOMAIN Val(Val(sanA.response).headers)
  /\ Val(Val(Val(outA).response).headers)[k_SetCookie] = DEFAULT_MASK

\* the value with every member under a sensitive key, at any depth,
\* replaced by the mask and everything else as it was
RECURSIVE maskedUnderSensitiveKeys(_)
maskedUnderSensitiveKeys(v) ==
  CASE v.t = "arr" ->
         JArr([i \in 1..Len(v.items) |-> maskedUnderSensitiveKeys(v.items[i])])
    [] v.t = "obj" ->
         JObj([i \in 1..Len(v.members) |->
                 <<v.members[i][1],
                   IF \E j \in 1..Len(SENSITIVE_JSON_KEY_PATTERNS) :
                        includes(toLowerCase(v.members[i][1]),
                                 SENSITIVE_JSON_KEY_PATTERNS[j])
                   THEN JStr(DEFAULT_MASK)
                   ELSE maskedUnderSensitiveKeys(v.members[i][2])>>])
    [] OTHER -> v

\* after is the JSON body before, deep-masked
jsonBodyMasked(before, after) ==
  (IsSome(before) /\ Val(before).text.k = "json") =>
    /\ IsSome(after)
    /\ Val(after).text.k = "json"
    /\ Val(after).text.v = maskedUnderSensitiveKeys(Val(before).text.v)

\* C12: for every body that parses as JSON, after sanitizeLog every member
\* under a sensitive key, at any depth and inside arrays, is replaced whole by
\* the mask and every other value is what it was.
C12_JsonDeepMasked ==
  IsSome(outA) =>
    /\ jsonBodyMasked(sanA.request.body, Val(outA).request.body)
    /\ jsonBodyMasked(Val(sanA.response).body, Val(Val(outA).response).body)

\* the key rule of the claim: lowercased, the key equals, contains or ends
\* with "_" and a word of the sensitive query vocabulary
isSensitiveQueryKey(key) ==
  \E i \in 1..Len(SENSITIVE_QUERY_KEYS) :
    LET s == SENSITIVE_QUERY_KEYS[i]
        k == toLowerCase(key)
    IN k = s \/ includes(k, s) \/ endsWith(k, <<"_">> \o s)

\* after is the query map before with exactly the sensitive keys masked
queryMasked(before, after) ==
  IsSome(before) =>
    /\ IsSome(after)
    /\ \A key \in DOMAIN Val(before) :
         /\ key \in DOMAIN Val(after)
         /\ Val(after)[key] = IF isSensitiveQueryKey(key)
                              THEN DEFAULT_MASK ELSE Val(before)[key]

\* after is the form body before with exactly the sensitive keys masked
formMasked(before, after) ==
  (IsSome(before) /\ Val(before).text.k = "form") =>
    /\ IsSome(after)
    /\ Val(after).text.k = "form"
    /\ Len(Val(after).text.pairs) = Len(Val(before).text.pairs)
    /\ \A i \in 1..Len(Val(before).text.pairs) :
         LET pair == Val(before).text.pairs[i]
         IN Val(after).text.pairs[i] =
              <<pair[1], IF isSensitiveQueryKey(pair[1])
                         THEN DEFAULT_MASK ELSE pair[2]>>

\* C13: a query key, and likewise a key of a form-urlencoded body, is masked
\* if and only if its lowercased form equals, contains or ends with _<s> for
\* a word s of the sensitive query vocabulary; the values of the other keys
\* are returned unchanged.
C13_QueryAndFormKeyRule ==
  IsSome(outA) =>
    /\ queryMasked(sanA.request.query, Val(outA).request.query)
    /\ formMasked(sanA.request.body, Val(outA).request.body)

\* the text of the body, when there is one, is no longer than the limit
bodyWithinLimit(body) ==
  IsSome(body) => Len(textString(Val(body).text)) <= BODY_LIMIT

recordWithinLimit(log) ==
  /\ bodyWithinLimit(log.request.body)
  /\ IsSome(log.response) => bodyWithinLimit(Val(log.response).body)

\* C14: in every record held in the ring, sent to a subscriber or persisted,
\* the request body text and the response body text, when present, are no
\* longer than the capture limit, for any body size, chunking and content.
C14_BodyTextBounded ==
  /\ \A i \in 1..Len(logs) : recordWithinLimit(logs[i])
  /\ \A c \in 1..Len(sse) : \A j \in 1..Len(sse[c].written) :
       sse[c].written[j].event = "log" =>
         recordWithinLimit(sse[c].written[j].data)
  /\ \A sid \in 1..Len(sessions) :
       /\ \A j \in 1..Len(sessions[sid].buf) :
            recordWithinLimit(sessions[sid].buf[j].line)
       /\ \A j \in 1..Len(sessions[sid].file) :
            recordWithinLimit(sessions[sid].file[j].line)

\* the headers name nothing hop-by-hop
noHopByHop(headers) == \A name \in DOMAIN headers : toLowerCase(name) \notin HOP_BY_HOP

\* C15: in every emitted record, of the forward proxy, the CONNECT tunnel and
\* the MITM proxy, request.headers and response.headers contain no hop-by-hop
\* header name, whatever headers the client or the upstream sent.
C15_NoHopByHopInRecords ==
  \A n \in 1..Len(emitted) :
    /\ noHopByHop(emitted[n].request.headers)
    /\ (IsSome(emitted[n].response) /\ IsSome(Val(emitted[n].response).headers))
         => noHopByHop(Val(Val(emitted[n].response).headers))

\* the names that the Connection header of the map lists, lowercased
listedByConnection(headers) ==
  UNION { LET pieces == split(headers[c], <<>>)
          IN { toLowerCase(trim(pieces[i])) : i \in 1..Len(pieces) } \ {<<>>} :
          c \in { k \in DOMAIN headers : toLowerCase(k) = k_connection } }

C17_IdentityFieldsNonEmpty ==
  \A n \in 1..Len(emitted) :
    /\ emitted[n].url.origin # ""
    /\ emitted[n].host # ""
    /\ emitted[n].path # ""
    /\ emitted[n].method # ""
    /\ emitted[n].id # <<>>

\* the methods of the RequestLog type
LogMethods == {"GET", "POST", "PUT", "PATCH", "DELETE", "HEAD", "OPTIONS", "CONNECT"}

\* the URL has a scheme and a host
isValidURL(url) ==
  \E scheme \in {"http://", "https://"} :
    /\ Len(url.origin) > Len(scheme)
    /\ SubSeq(url.origin, 1, Len(scheme)) = scheme

\* C18: the method of every emitted record is one of GET, POST, PUT, PATCH,
\* DELETE, HEAD, OPTIONS, CONNECT and its url is a valid absolute URL, for
\* any request method and target the client sends.
C18_MethodAndUrlValid ==
  \A n \in 1..Len(emitted) :
    /\ emitted[n].method \in LogMethods
    /\ isValidURL(emitted[n].url)

\* a start() or stop() call is between its first effect and its return
midCall(i) == tasks[i].pc \notin {"init", "done"}

\* the transition is a pushLog whose append() writes to the session
appendTakesEffect ==
  /\ Len(emitted') = Len(emitted) + 1
  /\ current # None
  /\ writeStream # None

\* C19: the writes to the current session are serialized: an append never
\* takes effect in the middle of a start or a stop.
C19_AppendNotInsideStartOrStop ==
  [][appendTakesEffect => \A i \in 1..Len(tasks) : ~midCall(i)]_vars

\* the lines of the session's logs.ndjson, on disk or on their way to it
linesIn(sid) == Len(sessions[sid].file) + Len(sessions[sid].buf)

\* C20: whenever every append issued has completed (and no start or stop is
\* running), the logCount in a session's meta.json equals the number of lines
\* of its logs.ndjson, and so does the logCount of the current session.
C20_LogCountMatchesLines ==
  (/\ ~crashed
   /\ metaWrites = {}
   /\ \A i \in 1..Len(tasks) : tasks[i].pc = "done")
  => /\ \A sid \in 1..Len(sessions) :
          IsSome(sessions[sid].meta) =>
            Val(sessions[sid].meta).logCount = linesIn(sid)
     /\ IsSome(current) => Val(current).logCount = linesIn(Val(current).id)

\* the stop() of call i has returned a meta (for a start(), the stop() it
\* awaited first)
stopReturned(i) ==
  /\ IsSome(tasks[i].stopMeta)
  /\ tasks[i].pc \in {"done", "mkdir", "writeMeta"}

\* C21: once stop() has returned the meta of session S, S is terminal and
\* stays so: no current session points to S and S's meta.json contains
\* endedAt in every later state, whatever append completes afterwards.
C21_StoppedSessionIsTerminal ==
  \A i \in 1..Len(tasks) :
    stopReturned(i) =>
      LET S == Val(tasks[i].stopMeta).id
      IN /\ ~(IsSome(current) /\ Val(current).id = S)
         /\ IsSome(sessions[S].meta)
         /\ Val(sessions[S].meta).endedAt

\* the transition is the return of start() call i, which stopped a session
startReturnsAfterStop(i) ==
  /\ tasks[i].op = "start"
  /\ tasks[i].pc = "writeMeta"
  /\ tasks'[i].pc = "done"
  /\ IsSome(tasks[i].stopMeta)

\* C22: start() on a store whose current session is A first stops A: when
\* start() returns, A's meta.json has endedAt, A's log file handle is closed
\* and the current session is the new one, with logCount 0 and no endedAt.
C22_StartStopsCurrentFirst ==
  [][\A i \in 1..Len(tasks) :
       startReturnsAfterStop(i) =>
         LET A == Val(tasks[i].stopMeta).id
         IN /\ IsSome(sessions'[A].meta)
            /\ Val(sessions'[A].meta).endedAt
            /\ sessions'[A].ended
            /\ current' = Some([id |-> tasks[i].sid, logCount |-> 0,
                                endedAt |-> FALSE])]_vars

\* the lines of the session's logs.ndjson in file order, those still in the
\* stream's buffer last
linesOf(sid) == sessions[sid].file \o sessions[sid].buf

\* the position in the emission history of the record of a line
emissionOf(line) == line.line.id[2]

\* C23: within one session the order of the lines of logs.ndjson is the
\* order in which the records were emitted: a record emitted earlier has
\* the earlier line.
C23_LinesInEmissionOrder ==
  \A sid \in 1..Len(sessions) :
    \A j \in 1..Len(linesOf(sid)) : \A k \in 1..Len(linesOf(sid)) :
      j < k => emissionOf(linesOf(sid)[j]) < emissionOf(linesOf(sid)[k])

C23_Witness ==
  \E sid \in 1..Len(sessions) :
    /\ Len(sessions[sid].file) >= 2
    /\ Len(sessions[sid].buf) >= 1
    /\ emissionOf(sessions[sid].file[1]) = 1
    /\ emissionOf(sessions[sid].buf[1]) = 3

\* the ids of the well-formed records of the file, in file order
wellFormed(file) ==
  LET recs == SelectSeq(file, LAMBDA l : l.k = "rec")
  IN [i \in 1..Len(recs) |-> recs[i].id]

\* the last n elements of the sequence, or all of it
lastN(q, n) == SubSeq(q, (IF Len(q) > n THEN Len(q) - n ELSE 0) + 1, Len(q))

\* C24: readLogs(id, limit) skips malformed lines and returns the last
\* `limit` well-formed records in file order: the final min(limit, number of
\* well-formed lines) well-formed records; an unknown session or an
\* unreadable file yields the empty list.
C24_ReadLogsLastWellFormed ==
  (call.fn = "readLogs" /\ IsSome(ret)) =>
    Val(ret) = IF call.known /\ call.readable
               THEN lastN(wellFormed(call.file), call.limit)
               ELSE <<>>

\* C26: normalizePath is idempotent: normalizing what it returned returns
\* the same path, for paths with repeated or trailing slashes and for paths
\* that already contain :id, :uuid or :hash.
C26_NormalizeIdempotent ==
  (call.fn = "normalizePath" /\ call.again) => Val(ret) = call.path

C26_Witness ==
  /\ call.fn = "normalizePath"
  /\ call.again
  /\ call.from = <<"/", "/">> \o seg_42 \o <<"/">> \o seg_id
  /\ call.path = <<"/", "/">> \o seg_id \o <<"/">> \o seg_id
  /\ Val(ret) = call.path

\* the rule of reference: one slash off the end unless the path is the
\* root, then every non-empty piece by kind, UUID before hash before number
referencePath(path) ==
  LET clean == IF path # <<"/">> /\ path # <<>> /\ path[Len(path)] = "/"
               THEN SubSeq(path, 1, Len(path) - 1) ELSE path
      parts == splitSlash(clean)
  IN joinChars([i \in 1..Len(parts) |->
                  IF parts[i] = <<>> THEN parts[i]
                  ELSE IF isUuid(parts[i]) THEN seg_uuid
                  ELSE IF isHash(parts[i]) THEN seg_hash
                  ELSE IF isNumeric(parts[i]) THEN seg_id
                  ELSE parts[i]],
               <<"/">>)

\* C27: for every path normalizePath equals the reference rule: strip a
\* single trailing / except for the root, then replace each non-empty
\* segment by :uuid, else :hash, else :id, else keep it.
C27_NormalizeIsReference ==
  (call.fn = "normalizePath" /\ ~call.again /\ IsSome(ret)) =>
    Val(ret) = referencePath(call.path)

\* the sum of the values of a counting map; a value that is no number
\* makes the map sum to no count at all
RECURSIVE sumOver(_, _)
sumOver(map, keys) ==
  IF keys = {} THEN 0
  ELSE LET k == CHOOSE x \in keys : TRUE
       IN (IF map[k].t = "num" THEN map[k].n ELSE -1000) + sumOver(map, keys \ {k})

sumsTo(map, count) ==
  /\ \A k \in DOMAIN map : map[k].t = "num"
  /\ sumOver(map, DOMAIN map) = count

parsable(list) == SelectSeq(list, LAMBDA l : IsSome(l.url))

RECURSIVE countSum(_)
countSum(endpoints) ==
  IF endpoints = <<>> THEN 0 ELSE Head(endpoints).count + countSum(Tail(endpoints))

reportTotalsHold(list, report) ==
  LET e == report.endpoints
  IN /\ report.totalLogs = Len(list)
     /\ \A i, j \in 1..Len(e) : i # j => e[i].key # e[j].key
     /\ \A i \in 1..Len(e) :
          e[i].key = e[i].method \o <<" ">> \o e[i].host \o <<" ">> \o e[i].path
     /\ countSum(e) = Len(parsable(list))

reportMapsSumToCount(report) ==
  \A i \in 1..Len(report.endpoints) :
    LET e == report.endpoints[i]
    IN /\ sumsTo(e.statuses, e.count)
       /\ sumsTo(e.mime.req, e.count)
       /\ sumsTo(e.mime.res, e.count)

\* C28: for every log list buildRouteReport returns totalLogs = |L|, the
\* endpoint keys are distinct and each is "METHOD host normalizedPath", the
\* counts sum to the number of logs whose url parses, and in every endpoint
\* the values of statuses, of mime.req and of mime.res each sum to its count.
C28_ReportTotals ==
  (call.fn = "buildRouteReport" /\ IsSome(ret)) =>
    /\ reportTotalsHold(call.logs, Val(ret))
    /\ reportMapsSumToCount(Val(ret))

\* the endpoints of the reports that have this key, in session order
contributions(reports, key) ==
  LET has == SelectSeq(reports, LAMBDA r : indexOfKey(r.endpoints, key) # 0)
  IN [i \in 1..Len(has) |-> has[i].endpoints[indexOfKey(has[i].endpoints, key)]]

RECURSIVE totalOf(_)
totalOf(q) ==
  IF q = <<>> THEN 0 ELSE Head(q) + totalOf(Tail(q))

\* the element-wise sum of counting maps: an entry is the sum of the
\* entries of that name in the maps that have one
RECURSIVE entrySum(_, _)
entrySum(maps, k) ==
  LET with == SelectSeq(maps, LAMBDA f : k \in DOMAIN f)
  IN IF Len(with) = 1 THEN with[1][k]
     ELSE plus(entrySum(SubSeq(with, 1, Len(with) - 1), k), with[Len(with)][k])

isSumOf(merged, maps) ==
  /\ DOMAIN merged = UNION { DOMAIN maps[i] : i \in 1..Len(maps) }
  /\ \A k \in DOMAIN merged : merged[k] = entrySum(maps, k)

mergedAsClaimed(reports, merged) ==
  LET keys == UNION { { reports[j].endpoints[i].key :
                            i \in 1..Len(reports[j].endpoints) } :
                        j \in 1..Len(reports) }
      e == merged.endpoints
  IN /\ merged.totalLogs = totalOf([j \in 1..Len(reports) |-> reports[j].totalLogs])
     /\ Len(e) = Cardinality(keys)
     /\ { e[i].key : i \in 1..Len(e) } = keys
     /\ \A i \in 1..Len(e) :
          LET c == contributions(reports, e[i].key)
          IN /\ e[i].count = totalOf([j \in 1..Len(c) |-> c[j].count])
             /\ isSumOf(e[i].statuses, [j \in 1..Len(c) |-> c[j].statuses])
             /\ isSumOf(e[i].mime.req, [j \in 1..Len(c) |-> c[j].mime.req])
             /\ isSumOf(e[i].mime.res, [j \in 1..Len(c) |-> c[j].mime.res])
             /\ e[i].queryKeys =
                  sorted(UNION { { c[j].queryKeys[n] : n \in 1..Len(c[j].queryKeys) } :
                                 j \in 1..Len(c) })
             /\ e[i].sample = c[1].sample

\* C29: the merged report of a group has one endpoint per distinct key; its
\* count and each entry of statuses, mime.req and mime.res is the
\* element-wise sum over the group's reports, its queryKeys the sorted
\* union, its sample the one of the first report that has the key, and its
\* totalLogs the sum of the reports' totalLogs.
C29_MergeIsElementwiseSum ==
  (call.fn = "mergeReports" /\ IsSome(ret)) =>
    mergedAsClaimed(call.reports, Val(ret))

\* the request line is an absolute URL, or a path that makes one with the
\* Host header
hasTarget(req) ==
  \/ req.url.form = "absolute"
  \/ req.url.form = "origin" /\ k_host \in DOMAIN req.headers

\* C30: a proxy request that yields no valid target URL is answered 400 and
\* nothing else; no upstream request is opened for it and no record is
\* emitted for it.
C30_InvalidTargetRejected ==
  \A e \in 1..MaxExchanges :
    (IsSome(ex[e].req) /\ ~hasTarget(Val(ex[e].req))) =>
      /\ ex[e].clientWrites = <<clientWrite(400, "badRequest")>>
      /\ ex[e].target = None
      /\ ex[e].res = "none"
      /\ ex[e].upRes = None
      /\ ~ex[e].reqErrored
      /\ recordsOf(<<"http", e>>) = {}

\* a rejected request after which another exchange has run to its record
C30_Witness ==
  /\ IsSome(ex[1].req)
  /\ ~hasTarget(Val(ex[1].req))
  /\ ex[1].clientWrites = <<clientWrite(400, "badRequest")>>
  /\ ex[1].writableEnded
  /\ recordsOf(<<"http", 2>>) # {}

\* a report has the totals and the endpoints of one built from these lines
sameReport(report, sid, file) ==
  /\ report.totalLogs = reportOfFile(sid, file).totalLogs
  /\ report.endpoints = reportOfFile(sid, file).endpoints

\* C25: report.json of a session is written at most once, and a cached
\* report that is served has the totalLogs and the endpoints of a report
\* built from the session's complete log file at that moment.
C25_ReportWrittenOnceAndFresh ==
  /\ \A sid \in 1..Len(sessions) : sessions[sid].reportWrites <= 1
  /\ (IsSome(ret) /\ Val(ret).route \in {"report", "md"} /\ Val(ret).cached) =>
       sameReport(Val(ret).report, Val(ret).sid, Val(ret).file)

\* C31: in the forward proxy and in the MITM proxy the side buffer that
\* captures a body holds at most the capture limit at every point of the
\* exchange, for any number and size of chunks.
C31_SideBufferBounded ==
  Len(concat(cap.chunks)) <= BODY_LIMIT

\* the body is selected for the JSON branch of maskBody
selectedForJson(b) ==
  /\ ~includes(toLowerCase(b.mime), MIME_FORM)
  /\ includes(toLowerCase(b.mime), MIME_JSON) \/ startsWithBracket(b.text)

\* the body is selected for no branch
selectedForNothing(b) ==
  /\ ~includes(toLowerCase(b.mime), MIME_FORM)
  /\ ~includes(toLowerCase(b.mime), MIME_JSON)
  /\ ~startsWithBracket(b.text)

passedThrough(before, after) ==
  IsSome(before) =>
    /\ IsSome(after)
    /\ (selectedForJson(Val(before)) /\ ~IsSome(JSON_parse(Val(before).text))) =>
         Val(after).text = Val(before).text
    /\ selectedForNothing(Val(before)) => after = before

\* C32: sanitizeLog returns a record for every record; a body selected for
\* JSON masking whose text does not parse keeps its text, and a body whose
\* MIME is neither form nor JSON and whose text does not begin with { or [
\* is returned unchanged.
C32_SanitizerPassesThrough ==
  IsSome(outA) =>
    /\ DOMAIN Val(outA) = DOMAIN sanA
    /\ passedThrough(sanA.request.body, Val(outA).request.body)
    /\ IsSome(sanA.response) =>
         /\ IsSome(Val(outA).response)
         /\ passedThrough(Val(sanA.response).body, Val(Val(outA).response).body)

\* a request body of JSON type that does not parse has been sanitized
C32_Witness ==
  /\ IsSome(outA)
  /\ IsSome(sanA.request.body)
  /\ includes(toLowerCase(Val(sanA.request.body).mime), MIME_JSON)
  /\ Val(sanA.request.body).text = BadJsonText("{\"name\":\"y")
  /\ Val(Val(outA).request.body).text = BadJsonText("{\"name\":\"y")

\* a step of /api/clear that changes the state
clearStep == clearedAt' # clearedAt

\* a step of pushLog after the ring was cleared
pushAfterClear == Len(emitted') = Len(emitted) + 1 /\ clearedAt > 0

\* the record of the step is at the head of the ring, written to every
\* subscriber and, with a session recording, written to its stream and counted
pushedAsBefore ==
  LET safe == pushLogSafe(emitted'[Len(emitted')])
  IN /\ logs' # <<>> /\ logs'[1] = safe
     /\ Len(logs') = IF Len(logs) < MAX_LOGS THEN Len(logs) + 1 ELSE MAX_LOGS
     /\ \A c \in clients : sse'[c].written = Append(sse[c].written, logEvent(safe))
     /\ (current # None /\ writeStream # None /\ ~crashed') =>
          /\ sessions'[Val(writeStream)].buf =
               Append(sessions[Val(writeStream)].buf, ndjsonLine(safe))
          /\ Val(current').logCount = Val(current).logCount + 1

\* C33: /api/clear empties the ring and changes nothing else: the
\* subscribers, the current session, its logCount and its log file stay as
\* they are, and records pushed after the clear are delivered and stored as
\* before.
C33_ClearOnlyEmptiesRing ==
  [][/\ clearStep =>
         /\ logs' = <<>>
         /\ UNCHANGED <<clients, sse, current, writeStream, sessions,
                        metaWrites, tasks, crashed, emitted>>
     /\ pushAfterClear => pushedAsBefore]_vars

\* a record pushed after a clear, with a subscriber listening and a session
\* recording: it is in the ring, sent, and the second line of the file
C33_Witness ==
  /\ clearedAt = 1
  /\ Len(emitted) = 2
  /\ Len(logs) = 1
  /\ clients = {1}
  /\ Len(sse[1].written) = 3
  /\ current # None
  /\ Val(current).logCount = 2
  /\ Len(sessions[1].file) = 2

\* the endpoint key of a log whose url parses
keyOf(l) ==
  toUpperCase(IF l.method = <<>> THEN <<"G","E","T">> ELSE l.method)
    \o <<" ">> \o Val(l.url).host \o <<" ">> \o normalizePath(Val(l.url).pathname)

\* the first log of the list that has this key
firstWith(list, key) ==
  list[CHOOSE i \in 1..Len(list) :
         /\ IsSome(list[i].url) /\ keyOf(list[i]) = key
         /\ \A j \in 1..(i - 1) : ~(IsSome(list[j].url) /\ keyOf(list[j]) = key)]

withinSampleLimit(text) == IsSome(text) => Len(Val(text)) <= MAX_SAMPLE_BODY

\* C34: for every endpoint of a built report the sample is derived from the
\* first log of the list that has the endpoint's key, and the sample's
\* request and response body text is at most 2048 characters long.
C34_SampleIsFirstAndClipped ==
  (call.fn = "buildRouteReport" /\ IsSome(ret)) =>
    \A i \in 1..Len(Val(ret).endpoints) :
      LET e == Val(ret).endpoints[i]
          first == firstWith(call.logs, e.key)
      IN /\ e.sample.ts = first.ts
         /\ e.sample.url = Val(first.url)
         /\ e.sample.status = first.status
         /\ withinSampleLimit(e.sample.reqText)
         /\ withinSampleLimit(e.sample.resText)

\* the keys in the order in which the builder or the merge meets them: the
\* keys of the logs of the list (none for a log whose url does not parse),
\* or the keys of the endpoints of the reports, one report after the other
keysMet ==
  IF call.fn = "buildRouteReport"
  THEN [i \in 1..Len(call.logs) |->
          IF IsSome(call.logs[i].url) THEN keyOf(call.logs[i]) ELSE <<>>]
  ELSE LET RECURSIVE all(_)
           all(reports) ==
             IF reports = <<>> THEN <<>>
             ELSE [i \in 1..Len(Head(reports).endpoints) |-> Head(reports).endpoints[i].key]
                    \o all(Tail(reports))
       IN all(call.reports)

firstMet(key) ==
  CHOOSE i \in 1..Len(keysMet) :
    keysMet[i] = key /\ \A j \in 1..(i - 1) : keysMet[j] # key

\* a before b: a greater count, or the same count and met earlier
inOrder(a, b) ==
  \/ a.count > b.count
  \/ a.count = b.count /\ firstMet(a.key) < firstMet(b.key)

\* C35: the endpoints of a built report and of a merged report are ordered
\* by count descending, endpoints of equal count in the order in which their
\* keys first appear; the order is total on the keys, so the endpoint
\* sequence of the same input is the same every time.
C35_EndpointsOrdered ==
  (call.fn \in {"buildRouteReport", "mergeReports"} /\ IsSome(ret)) =>
    LET e == Val(ret).endpoints
    IN /\ { e[i].key : i \in 1..Len(e) } = Range(keysMet) \ {<<>>}
       /\ \A i, j \in 1..Len(e) : i < j => inOrder(e[i], e[j])

\* a merged report in which the sort moved an endpoint forward and left two
\* endpoints of equal count in their order
C35_Witness ==
  /\ call.fn = "mergeReports" /\ IsSome(ret)
  /\ LET e == Val(ret).endpoints
     IN \E i, j \in 1..Len(e) :
          /\ i < j /\ e[i].count > e[j].count
          /\ firstMet(e[i].key) > firstMet(e[j].key)
          /\ \E k \in 1..Len(e) : k # j /\ e[k].count = e[j].count

\* the writes into clientRes that relay the upstream response
relayed(x) == SelectSeq(x.clientWrites, LAMBDA w : w.from = "upstream")

\* the upstream request of the exchange is torn down: it is destroyed and
\* the error it was destroyed with has been emitted
tornDown(x) == x.reqDestroyed /\ x.pendingErr = None

\* a step that relays nothing from upstream in exchange e
noRelay(e) ==
  /\ relayed(ex'[e]) = relayed(ex[e])
  /\ ex'[e].res \in {ex[e].res, "errored"}
  /\ ex'[e].upRes = ex[e].upRes

\* C36: once the "aborted" or "close" handler of an exchange has run, its
\* upstream request is eventually torn down, and no step after it relays
\* anything of the upstream response.
C36_AbortTearsDownUpstream ==
  /\ \A e \in 1..MaxExchanges : ex[e].clientClosed ~> tornDown(ex[e])
  /\ [][\A e \in 1..MaxExchanges : ex[e].clientClosed => noRelay(e)]_vars

\* the client went away before the upstream answered, and the request it
\* destroyed has emitted its error
C36_Witness ==
  \E e \in 1..MaxExchanges :
    /\ ex[e].clientClosed /\ ex[e].res = "none"
    /\ ex[e].reqErrored /\ tornDown(ex[e])
    /\ ~ex[e].upstreamFailed

\* the sessions whose start() has run to its end: createWriteStream has
\* opened the log file
started(sid) ==
  \E i \in 1..Len(tasks) :
    tasks[i].op = "start" /\ tasks[i].sid = sid /\ tasks[i].pc = "done"

\* the write streams that were opened and on which end() was not called
openStreams == { sid \in 1..Len(sessions) : started(sid) /\ ~sessions[sid].ended }

\* no stop() is between writeStream.end() and its callback
noStopEnding == \A i \in 1..Len(tasks) : tasks[i].pc # "stopEnd"

\* C37: in every state of the store, whatever the interleaving of start and
\* stop calls, at most one write stream is open, one is open exactly when
\* there is a current session, and every started session that is not the
\* current one has endedAt in its meta.json.
C37_OneStreamIffCurrent ==
  (~crashed /\ noStopEnding) =>
    /\ Cardinality(openStreams) <= 1
    /\ (openStreams # {}) <=> (current # None)
    /\ \A sid \in 1..Len(sessions) :
         (started(sid) /\ (current = None \/ Val(current).id # sid))
           => (IsSome(sessions[sid].meta) /\ Val(sessions[sid].meta).endedAt)

\* C38: once the proxy has written the 200 Connection Established line to
\* the client of a tunnel, it writes nothing of its own into that socket:
\* the line is the last of the proxy's writes, whatever errors come later.
C38_NothingAfterEstablished ==
  \A t \in 1..MaxTunnels :
    \A i \in 1..Len(tun[t].clientWrites) :
      tun[t].clientWrites[i] = "HTTP/1.1 200 Connection Established"
        => i = Len(tun[t].clientWrites)

\* C39: sanitizeLog is idempotent: sanitizing the sanitized record once more
\* gives the same record, in its headers, its query and its bodies, form
\* and JSON alike.
C39_SanitizeIdempotent ==
  /\ IsSome(outA) => sanitizeLog(Val(outA)) = Val(outA)
  /\ IsSome(outB) => sanitizeLog(Val(outB)) = Val(outB)

\* a sanitized record whose headers, query and JSON response body differ
\* from the captured ones and whose form body lost a repeated key
C39_Witness ==
  /\ IsSome(outA)
  /\ Val(outA).request.headers # sanA.request.headers
  /\ Val(outA).request.query # sanA.request.query
  /\ IsSome(sanA.request.body)
  /\ includes(toLowerCase(Val(sanA.request.body).mime), MIME_FORM)
  /\ Val(sanA.request.body).text.k = "form"
  /\ Len(Val(Val(outA).request.body).text.pairs)
       < Len(Val(sanA.request.body).text.pairs)
  /\ Val(Val(outA).response).body # Val(sanA.response).body
  /\ sanitizeLog(Val(outA)) = Val(outA)

\* C10: two captures of one shape that differ only in the values under
\* sensitive keys are sanitized to equal records.
C10_SecretIndependent ==
  (IsSome(outA) /\ IsSome(outB)) => Val(outA) = Val(outB)

====
